---- MODULE Spec2Model ----
(***************************************************************************)
(* Model of the scheduling, idempotency and authorization engine of        *)
(* lark-skygpt-v3 (src/lark-skygpt-v3-patched).                            *)
(*                                                                         *)
(*   SpecDedupe : app/main.py _dedupe_mark, called by concurrent callers   *)
(*                of several web processes against one Redis.              *)
(*   SpecSched  : scheduler_worker.py hourly scan and daily fallback of    *)
(*                two workers, crud.acquire_summary_lock, "#summary once". *)
(*   SpecEvent  : app/main.py _process_lark_event with the record_message  *)
(*                task it spawns, for redelivered message events.          *)
(*   SpecChat   : app/crud.py set_chat_enabled / set_chat_schedule called  *)
(*                by concurrent database sessions.                         *)
(*   SpecToggle : "#summary off / on" next to the scheduler jobs.          *)
(*   SpecCmd    : app/tasks.py login, logout, range and all range commands *)
(*                with the admin sessions kept in Redis.                   *)
(*   SpecTicks  : one scheduler process over successive hours.             *)
(*   SpecScan   : one scan and one fallback pass at every hour of a day.   *)
(*   SpecHang   : SpecTicks with dependencies that never answer a call.    *)
(*   SpecText   : app/tasks.py once, off, on, at, tz and lang commands,    *)
(*                interpreted from the text of the message.                *)
(*   SpecToken  : app/lark_client.py get_tenant_access_token called by     *)
(*                concurrent coroutines of one process.                    *)
(*                                                                         *)
(* Time is the wall clock in seconds (time.time()).                        *)
(***************************************************************************)
EXTENDS Integers, Sequences, FiniteSets, TLC

\* ------------------------------------------------------------------ bounds
NumCallers == 2
NumDeliveries == 2
MaxTicks == 2
NumSessions == 2
NumCoroutines == 3

\* --------------------------------------------------------- program constants
\* app/main.py:119  _LOCAL_TTL = 24 * 3600
LOCAL_TTL == 24 * 3600

\* ------------------------------------------------------------ input domains
WebProcs == {"web1", "web2"}
MsgIds == {"m1", "m2"}
Callers == 1..NumCallers
Deliveries == 1..NumDeliveries
Coroutines == 1..NumCoroutines
\* the slots that hold a _dedupe_mark call: direct callers and event deliveries
Slots == 1..(IF NumCallers > NumDeliveries THEN NumCallers ELSE NumDeliveries)
TickSteps == {1, LOCAL_TTL}

VARIABLES
    now,            \* wall clock, seconds
    ticks,          \* number of clock advances so far
    redisOn,        \* main.py:117 _redis is not None (REDIS_URL configured)
    redisKeys,      \* keys present in the shared Redis
    redisExpiry,    \* set of <<key, instant>>: the keys that carry a TTL
    local_seen,     \* main.py:118 per process: set of <<key, ts>>
    calls,          \* per caller: the position and locals of its _dedupe_mark call
    lastTrue,       \* history: per message id, the <<instant, process>> of every True returned
    localTrue,      \* history: <<process, id, instant>> of every True answered by the local cache
    log,            \* log records emitted so far
    hand,           \* per delivery: the position of its _process_lark_event / record_message tasks
    messages,       \* database.py:78 table messages: rows <<id, chat_id, ts_ms, text>>
    replies,        \* calls of main.reply_text so far: [by, to, mid]
    chats,          \* table of conversations: chat_id -> row, for the chat ids that have one
    summary_chat_ids, \* crud.py:61 environment variable SUMMARY_CHAT_IDS, as a sequence of ids
    summary_lock,   \* database.py:103 table summary_lock: rows <<summary_date, chat_id>>
    jobs,           \* per scheduler job (worker, kind): its position and locals
    runs,           \* history: one record per finished execution path or manual trigger
    muts,           \* per database session: the position and locals of its crud.set_chat_* call
    admin_code,     \* tasks.py:34 ADMIN_CODE (environment variable SUMMARY_ADMIN_CODE)
    tok,            \* lark_client.py:15-20 the token cache, token_lock, the token requests sent
                    \* so far, and per coroutine the position of its get_tenant_access_token
    cmd,            \* the "#summary" command handled last, with its outcome
    grants          \* history: per admin key, the instant of the latest login answered with
                    \* success under it, or -1 when there is none or a logout followed it

webVars == <<hand, messages, replies>>
schedVars == <<chats, summary_chat_ids, summary_lock, jobs, runs>>
cmdVars == <<muts, admin_code, tok, cmd, grants>>
vars == <<now, ticks, redisOn, redisKeys, redisExpiry, local_seen, calls, lastTrue, localTrue, log,
          hand, messages, replies, chats, summary_chat_ids, summary_lock, jobs, runs,
          muts, admin_code, tok, cmd, grants>>

\* ------------------------------------------------------------------ helpers
\* main.py:122  key = f"lark:msg:{message_id}"
DedupeKey(message_id) == <<"lark:msg", message_id>>

\* prior: the <<instant, process>> at which _dedupe_mark had already returned True
\* for the same id, in the same process, when this call began.
IdleCall == [pc |-> "idle", proc |-> "web1", mid |-> "m1", res |-> FALSE,
             via |-> "none", prior |-> {}, at |-> 0]

RedisSetnxOk_Racy(keys, key) == TRUE

\* main.py:125 _redis.setnx: the set is applied iff the key is absent (atomic in Redis).
RedisSetnxOk(keys, key) == key \notin keys

\* Redis EXPIRE key ttl at instant t: replaces any TTL the key carries.
RedisExpire(expiry, key, t, ttl) ==
    {e \in expiry : e[1] # key} \cup {<<key, t + ttl>>}

\* Redis drops a key once its expiry instant is reached.
RedisLive(keys, expiry, t) == {k \in keys : \A e \in expiry : e[1] = k => e[2] > t}

LocalPurge_AtTTL(seen, t) == {e \in seen : ~(t - e[2] >= LOCAL_TTL)}

\* main.py:134-136  for k, ts in list(_local_seen.items()): if now - ts > _LOCAL_TTL: pop
LocalPurge(seen, t) == {e \in seen : ~(t - e[2] > LOCAL_TTL)}

\* main.py:137  key in _local_seen
LocalHas(seen, key) == \E e \in seen : e[1] = key

\* An inbound im.message.receive_v1 event (main.py:255-260, tasks.py:136-166):
\* message_id "" stands for an event that carries none.
Events == {
    [message_id |-> "m1", chat_id |-> "c1", message_type |-> "text", text |-> "hello",
     create_time |-> 1000, chat_type |-> "p2p", mentioned |-> FALSE],
    [message_id |-> "m2", chat_id |-> "c2", message_type |-> "text", text |-> "hello",
     create_time |-> 2000, chat_type |-> "group", mentioned |-> FALSE],
    [message_id |-> "", chat_id |-> "c1", message_type |-> "image", text |-> "",
     create_time |-> 3000, chat_type |-> "p2p", mentioned |-> FALSE] }

IdleHandler == [pc |-> "idle", rec |-> "idle", ev |-> CHOOSE e \in Events : e.message_id = "m1"]

\* The conversation table before any conversation was observed.
NoChats == [c \in {} |-> 0]

\* Column defaults of a conversation row (spec section 3: enabled true, summaryHour 8,
\* timezone the system default, language zh).
DefaultChat == [enabled |-> TRUE, summary_hour |-> 8, tz |-> "Asia/Taipei", lang |-> "zh"]

upsert_chat_Reset(table, chat_id) ==
    [c \in DOMAIN table \cup {chat_id} |-> IF c = chat_id THEN DefaultChat ELSE table[c]]

\* crud.py:9-21 upsert_chat(db, chat_id, None): creates the row if absent; an existing
\* row only has last_seen refreshed (not modelled).
upsert_chat(table, chat_id) ==
    IF chat_id \in DOMAIN table THEN table
    ELSE [c \in DOMAIN table \cup {chat_id} |-> IF c = chat_id THEN DefaultChat ELSE table[c]]

\* crud.py:76-86 the existence test of save_message on (chat_id, ts_ms, text)
MessageExists(rows, e) ==
    \E r \in rows : r[2] = e.chat_id /\ r[3] = e.create_time /\ r[4] = e.text

\* crud.py:87-88 db.add(Message(...)): the only key of the table is the autoincrement id
\* (database.py:81), so the insert always succeeds.
InsertMessage(rows, e) ==
    rows \cup {<<Cardinality(rows) + 1, e.chat_id, e.create_time, e.text>>}

\* main.py:145-147 _is_p2p_chat
is_p2p_chat(e) == e.chat_type \in {"p2p", "single", "private", "p2p_chat"}

\* main.py:295-368 does the handler call reply_text for event e (no "#summary" command)
Answers(e) ==
    LET require_mention == ~is_p2p_chat(e) IN
    CASE e.message_type = "text" -> ~(require_mention /\ ~e.mentioned) /\ e.text # ""
      [] e.message_type \in {"image", "file"} -> ~(require_mention /\ ~e.mentioned)
      [] OTHER -> FALSE

\* ------------------------------------------------------------------ scheduler helpers
Workers == {"w1", "w2"}
JobKinds == {"hourly_scan", "daily_fallback"}
JobIds == Workers \X JobKinds
ChatOrder == <<"c1", "c2">>

\* scheduler_worker.py:20 DEFAULT_TZ (config.py:22 TIMEZONE = "Asia/Taipei")
DEFAULT_TZ == "Asia/Taipei"

\* The zone names zoneinfo.ZoneInfo resolves; for any other name it raises
\* ZoneInfoNotFoundError (scheduler_worker.py:24, 28).
KnownZones == {"Asia/Taipei", "Asia/Tokyo", "UTC"}

\* zoneinfo.ZoneInfo(tz): the offset from UTC, in seconds, of the zones in use
UtcOffset(tz) ==
    CASE tz = "Asia/Taipei" -> 8 * 3600
      [] tz = "Asia/Tokyo" -> 9 * 3600
      [] OTHER -> 0

\* scheduler_worker.py:23-25 _now_hour_in_tz at instant t
now_hour_in_tz(tz, t) == ((t + UtcOffset(tz)) \div 3600) % 24

\* scheduler_worker.py:27-29 _today_str_in_tz at instant t; the date is kept as the
\* number of the day since 1970-01-01 instead of its YYYY-MM-DD text
today_str_in_tz(tz, t) == (t + UtcOffset(tz)) \div 86400

\* tasks.py:98-105 _yesterday_range at instant t: <<start, end>> in seconds
yesterday_range(tz, t) ==
    LET today == (t + UtcOffset(tz)) \div 86400
    IN <<(today - 1) * 86400 - UtcOffset(tz), today * 86400 - UtcOffset(tz)>>

\* crud.py:94-107 get_messages_between
get_messages_between(rows, chat_id, start, end) ==
    {r \in rows : r[2] = chat_id /\ r[3] >= start * 1000 /\ r[3] < end * 1000}

\* crud.py:53-65 get_all_chats: the enabled rows, else the ids of SUMMARY_CHAT_IDS
get_all_chats(table, env_ids) ==
    LET enabled == SelectSeq(ChatOrder, LAMBDA c : c \in DOMAIN table /\ table[c].enabled)
    IN IF enabled # <<>>
       THEN [n \in 1..Len(enabled) |->
                [chat_id |-> enabled[n], tz |-> table[enabled[n]].tz,
                 hour |-> table[enabled[n]].summary_hour]]
       ELSE [n \in 1..Len(env_ids) |-> [chat_id |-> env_ids[n], tz |-> "Asia/Taipei", hour |-> 8]]

\* scheduler_worker.py:80  hour = int(c.get("hour") or 8)
ScanHour(c) == IF c.hour = 0 THEN 8 ELSE c.hour

\* scheduler_worker.py:81  is conversation c due in an hourly scan at instant t
DueNow(c, t) == now_hour_in_tz(c.tz, t) = ScanHour(c)

LockInsertOk_NoConstraint(rows, summary_date, chat_id) == TRUE

\* crud.py:117-119, database.py:106-111  the insert of a summary_lock row commits iff
\* no row with that primary key (summary_date, chat_id) exists
LockInsertOk(rows, summary_date, chat_id) == <<summary_date, chat_id>> \notin rows

\* The state of one job of one scheduler process.  pc: "idle", a step of the execution
\* path of the conversation at the head of todo, or "crashed" when the job function
\* ended by an exception; fired: the trigger of the current hour has been processed;
\* tick: the instant at which the job function was started, while it handles a
\* conversation.
IdleJob == [pc |-> "idle", todo |-> <<>>, today |-> 0, got |-> "none", fired |-> FALSE,
            tick |-> 0]

\* tasks.py:342-361 _summarize_for_chat_in_range: what is sent to the conversation
PipelineOutput(rows, chat_id, range) ==
    IF get_messages_between(rows, chat_id, range[1], range[2]) = {} THEN "tip" ELSE "summary"

\* ------------------------------------------------------------------ conversation settings
Sessions == 1..NumSessions

\* The arguments of one crud.set_chat_enabled / crud.set_chat_schedule call, as the
\* fields it provides: an omitted enabled or hour (None) is <<>>, a provided one <<v>>;
\* an omitted tz or lang is "" (crud.py:44,46 test them for truth, so None and "" alike
\* leave the field alone).
NoArgs == [enabled |-> <<>>, hour |-> <<>>, tz |-> "", lang |-> ""]
set_chat_enabled_args(b) == [NoArgs EXCEPT !.enabled = <<b>>]
set_chat_schedule_args(h, z, l) == [NoArgs EXCEPT !.hour = h, !.tz = z, !.lang = l]

ClampHour_None(h) == h

\* crud.py:43  max(0, min(23, int(hour)))
ClampHour(h) == IF h < 0 THEN 0 ELSE IF h > 23 THEN 23 ELSE h

AssignFields_Overwrite(row, a) ==
    [enabled |-> IF a.enabled # <<>> THEN a.enabled[1] ELSE DefaultChat.enabled,
     summary_hour |-> IF a.hour # <<>> THEN ClampHour(a.hour[1]) ELSE DefaultChat.summary_hour,
     tz |-> IF a.tz # "" THEN a.tz ELSE DefaultChat.tz,
     lang |-> IF a.lang # "" THEN a.lang ELSE DefaultChat.lang]

\* crud.py:26,29 and crud.py:42-47  the attribute assignments of a call on a loaded or
\* newly built row
AssignFields(row, a) ==
    [enabled |-> IF a.enabled # <<>> THEN a.enabled[1] ELSE row.enabled,
     summary_hour |-> IF a.hour # <<>> THEN ClampHour(a.hour[1]) ELSE row.summary_hour,
     tz |-> IF a.tz # "" THEN a.tz ELSE row.tz,
     lang |-> IF a.lang # "" THEN a.lang ELSE row.lang]

ChatFields == {"enabled", "summary_hour", "tz", "lang"}

\* The commit of a session that loaded the row as `loaded`: the ORM issues an UPDATE of
\* the columns whose attribute was changed, and leaves the other columns to the store.
FlushUpdate(current, loaded, a) ==
    LET new == AssignFields(loaded, a)
    IN [f \in ChatFields |-> IF new[f] # loaded[f] THEN new[f] ELSE current[f]]

ChatInsertOk_NoKey(table, chat_id) == TRUE

\* The INSERT of a conversation row commits iff no row has that identifier (spec
\* section 3: the identifier is unique).
ChatInsertOk(table, chat_id) == chat_id \notin DOMAIN table

InsertChat(table, chat_id, row) ==
    [c \in DOMAIN table \cup {chat_id} |-> IF c = chat_id THEN row ELSE table[c]]

\* row: <<>> when the select found no row, else <<the row as loaded>>;
\* ok: "none" while under way, then "committed", "conflict" (the insert was refused) or
\* "error" (the commit raised for another reason); seq: every earlier call had
\* returned when this one began.
IdleMut == [pc |-> "idle", chat |-> "c1", args |-> NoArgs, row |-> <<>>, ok |-> "none", seq |-> TRUE]

\* ------------------------------------------------------------------ admin sessions and ranges
\* tasks.py:35  ADMIN_TTL_SEC (default of SUMMARY_ADMIN_TTL_SEC)
ADMIN_TTL_SEC == 21600

\* tasks.py:36  MAX_RANGE_DAYS (default of SUMMARY_MAX_RANGE_DAYS)
MAX_RANGE_DAYS == 31

\* The open_id of the sender of a command; "" for an event that exposes none
\* (tasks.py:207-218).
Users == {"", "uA", "uB"}
ChatIds == {"c1", "c2"}
Codes == {"", "s3cret", "wrong"}

\* tasks.py:67, 89  f"summary:admin:{open_id}"
AdminKey(open_id) == <<"summary:admin", open_id>>

\* tasks.py:77, 92  f"summary:admin_chat:{chat_id}"
AdminChatKey(chat_id) == <<"summary:admin_chat", chat_id>>

AdminKeys == {AdminKey(u) : u \in Users \ {""}} \cup {AdminChatKey(c) : c \in ChatIds}

RedisSetEx_KeepTTL(expiry, key, t, ttl) ==
    IF \E e \in expiry : e[1] = key THEN expiry ELSE expiry \cup {<<key, t + ttl>>}

\* tasks.py:67, 77  _redis.set(key, "1", ex=ADMIN_TTL_SEC) at instant t: the key carries
\* the new TTL, whatever TTL it carried before
RedisSetEx(expiry, key, t, ttl) ==
    {e \in expiry : e[1] # key} \cup {<<key, t + ttl>>}

\* tasks.py:89, 92  _redis.get(key) at instant t
RedisGet(keys, expiry, key, t) == key \in RedisLive(keys, expiry, t)

is_admin_user_Any(keys, expiry, open_id, t) ==
    open_id # "" /\ \E u \in Users \ {""} : RedisGet(keys, expiry, AdminKey(u), t)

\* tasks.py:88-90  the sender's key is looked up when the event exposes a sender id
is_admin_user(keys, expiry, open_id, t) ==
    open_id # "" /\ RedisGet(keys, expiry, AdminKey(open_id), t)

is_admin_chat_Always(keys, expiry, chat_id, t) == chat_id # ""

\* tasks.py:91-93  the conversation's key
is_admin_chat(keys, expiry, chat_id, t) ==
    chat_id # "" /\ RedisGet(keys, expiry, AdminChatKey(chat_id), t)

is_admin_both_FailOpen(on, keys, expiry, open_id, chat_id, t) ==
    ~on \/ is_admin_user(keys, expiry, open_id, t) \/ is_admin_chat(keys, expiry, chat_id, t)

\* tasks.py:84-94  _is_admin_both, with `on` for "_redis is not None"
is_admin_both(on, keys, expiry, open_id, chat_id, t) ==
    IF ~on THEN FALSE
    ELSE IF is_admin_user(keys, expiry, open_id, t) THEN TRUE
    ELSE IF is_admin_chat(keys, expiry, chat_id, t) THEN TRUE
    ELSE FALSE

LoginReply_CodeFirst(secret, code, open_id) ==
    IF code # secret THEN "invalid_code"
    ELSE IF open_id # "" THEN "granted_user" ELSE "granted_chat"

\* tasks.py:224-235  the answer of "#summary login <code>"
LoginReply(secret, code, open_id) ==
    IF secret = "" THEN "not_configured"
    ELSE IF code # secret THEN "invalid_code"
    ELSE IF open_id # "" THEN "granted_user" ELSE "granted_chat"

\* The ranges written in the commands: 31 days, 32 days, end before start, a date
\* that is no calendar date, one day.
RangeTexts ==
    {<<[m |-> 8, d |-> 1], [m |-> 8, d |-> 31]>>, <<[m |-> 8, d |-> 1], [m |-> 9, d |-> 1]>>,
     <<[m |-> 8, d |-> 10], [m |-> 8, d |-> 1]>>, <<[m |-> 8, d |-> 1], [m |-> 2, d |-> 30]>>,
     <<[m |-> 8, d |-> 10], [m |-> 8, d |-> 10]>>}

DaysInMonth(m) ==
    CASE m \in {1, 3, 5, 7, 8, 10, 12} -> 31
      [] m \in {4, 6, 9, 11} -> 30
      [] m = 2 -> 28
      [] OTHER -> 0

\* tasks.py:115-118  datetime.strptime(text, "%Y-%m-%d") accepts calendar dates only
strptime_ok(t) == t.m \in 1..12 /\ t.d \in 1..DaysInMonth(t.m)

RECURSIVE DaysBefore(_)
DaysBefore(m) == IF m <= 1 THEN 0 ELSE DaysInMonth(m - 1) + DaysBefore(m - 1)

\* tasks.py:115  .date(): the date as the number of its day in 2025
ToDate(t) == DaysBefore(t.m) + t.d

\* tasks.py:107-121  _parse_range: <<>> for None, else <<d1, d2>>
parse_range(r) ==
    IF ~strptime_ok(r[1]) \/ ~strptime_ok(r[2]) THEN <<>>
    ELSE IF ToDate(r[2]) < ToDate(r[1]) THEN <<>>
    ELSE <<ToDate(r[1]), ToDate(r[2])>>

RangeTooLarge_AtMax(d1, d2) == (d2 - d1) + 1 >= MAX_RANGE_DAYS

\* tasks.py:258, 279  (d2 - d1).days + 1 > MAX_RANGE_DAYS
RangeTooLarge(d1, d2) == (d2 - d1) + 1 > MAX_RANGE_DAYS

\* tasks.py:123-127  _start_end_from_dates: [d1 00:00, d2 + 1 day 00:00), in days
start_end_from_dates(d1, d2) == <<d1, d2 + 1>>

\* The command handled last.  reply: what the handler sent back to the conversation
\* ("none": nothing); invoked: the pipeline invocations it made, as <<chat_id, start,
\* end>>; live_user, live_chat: whether a live session was stored under the sender's
\* key and under the conversation's key when it was handled; text: the words of the
\* message, for the commands that are interpreted from their text; commit: how the
\* commit of the change of such a command ended ("ok", "refused", "none": no change).
NoCmd == [cmd |-> "none", user |-> "", chat |-> "c1", code |-> "",
          range |-> <<[m |-> 8, d |-> 1], [m |-> 8, d |-> 1]>>,
          reply |-> "none", invoked |-> {}, live_user |-> FALSE, live_chat |-> FALSE,
          text |-> <<>>, commit |-> "none"]

\* The return of a _dedupe_mark call: result r answered by the store or the local cache.
Return(k, r, how) ==
    /\ calls' = [calls EXCEPT ![k] = [@ EXCEPT !.pc = "done", !.res = r, !.via = how, !.at = now]]
    /\ lastTrue' = IF r THEN [lastTrue EXCEPT ![calls[k].mid] = @ \cup {<<now, calls[k].proc>>}] ELSE lastTrue

\* ------------------------------------------------------------------ command texts
\* A message text is kept as the words it is written with, separated by one space;
\* Spell gives the characters of each word, so that the handler's tests on the text
\* are computed on its characters.
Spell ==
    ("#summary" :> <<"#", "s", "u", "m", "m", "a", "r", "y">>)
    @@ ("on" :> <<"o", "n">>) @@ ("off" :> <<"o", "f", "f">>)
    @@ ("once" :> <<"o", "n", "c", "e">>)
    @@ ("online" :> <<"o", "n", "l", "i", "n", "e">>)
    @@ ("offline" :> <<"o", "f", "f", "l", "i", "n", "e">>)
    @@ ("at" :> <<"a", "t">>) @@ ("tz" :> <<"t", "z">>) @@ ("lang" :> <<"l", "a", "n", "g">>)
    @@ ("login" :> <<"l", "o", "g", "i", "n">>) @@ ("logout" :> <<"l", "o", "g", "o", "u", "t">>)
    @@ ("range" :> <<"r", "a", "n", "g", "e">>) @@ ("all" :> <<"a", "l", "l">>)
    @@ ("0" :> <<"0">>) @@ ("9" :> <<"9">>) @@ ("25" :> <<"2", "5">>)
    @@ ("UTC" :> <<"U", "T", "C">>) @@ ("utc" :> <<"u", "t", "c">>)
    @@ ("mars" :> <<"m", "a", "r", "s">>)
    @@ ("en" :> <<"e", "n">>) @@ ("zh" :> <<"z", "h">>) @@ ("fr" :> <<"f", "r">>)
    @@ ("status" :> <<"s", "t", "a", "t", "u", "s">>)
    @@ ("enable" :> <<"e", "n", "a", "b", "l", "e">>)

\* The characters of a text of one or more words.
RECURSIVE Chars(_)
Chars(words) ==
    IF Len(words) = 1 THEN Spell[words[1]]
    ELSE Spell[words[1]] \o <<" ">> \o Chars(Tail(words))

\* The word with the characters s (one of the words of Spell).
Unspell(s) == CHOOSE w \in DOMAIN Spell : Spell[w] = s

\* tasks.py:202  low = text.lower(), over the capital letters the texts are written with
lower(s) ==
    LET small == ("U" :> "u") @@ ("T" :> "t") @@ ("C" :> "c")
    IN [i \in 1..Len(s) |-> IF s[i] \in DOMAIN small THEN small[s[i]] ELSE s[i]]

\* tasks.py:203, 221, 238, 251, 268, 290, 295, 301  low.startswith(p)
startswith(s, p) == Len(s) >= Len(p) /\ SubSeq(s, 1, Len(p)) = p

\* the characters of the class \d, in the order of their values
DigitChars == <<"0", "1", "2", "3", "4", "5", "6", "7", "8", "9">>

\* the characters of the class [\w/\-] that lower-case texts are written with
ZoneChars ==
    {"a", "b", "c", "d", "e", "f", "g", "h", "i", "j", "k", "l", "m", "n", "o", "p", "q", "r",
     "s", "t", "u", "v", "w", "x", "y", "z", "_", "/", "-"} \cup {DigitChars[n] : n \in 1..10}

\* The first index from i on at which s has no character of class, Len(s) + 1 if none.
RECURSIVE PastClass(_, _, _)
PastClass(s, i, class) ==
    IF i > Len(s) \/ s[i] \notin class THEN i ELSE PastClass(s, i + 1, class)

\* tasks.py:307, 315, 323  re.search(r"#summary\s+<verb>\s+...", low) on a text that
\* begins with the prefix: the index of the first character after the white space that
\* follows the verb, 0 when the text does not match that far
AfterVerb(low, verb) ==
    LET p == Len(Spell["#summary"]) + 1
        a == PastClass(low, p, {" "})
        b == a + Len(Spell[verb])
        e == PastClass(low, b, {" "})
    IN IF a = p \/ b - 1 > Len(low) THEN 0
       ELSE IF SubSeq(low, a, b - 1) # Spell[verb] THEN 0
       ELSE IF e = b THEN 0 ELSE e

\* tasks.py:309  int(m.group(1)) of one or two digits
int(ds) ==
    LET val(ch) == (CHOOSE n \in 1..10 : DigitChars[n] = ch) - 1
    IN IF Len(ds) = 1 THEN val(ds[1]) ELSE 10 * val(ds[1]) + val(ds[2])

\* tasks.py:307  the group (\d{1,2}) that follows "at": <<>> when there is no match
search_at(low) ==
    LET i == AfterVerb(low, "at")
        j == PastClass(low, i, {DigitChars[n] : n \in 1..10})
    IN IF i = 0 \/ j = i THEN <<>>
       ELSE <<SubSeq(low, i, IF j - i > 2 THEN i + 1 ELSE j - 1)>>

\* tasks.py:315  the group ([\w/\-]+) that follows "tz"
search_tz(low) ==
    LET i == AfterVerb(low, "tz")
        j == PastClass(low, i, ZoneChars)
    IN IF i = 0 \/ j = i THEN <<>> ELSE <<SubSeq(low, i, j - 1)>>

\* tasks.py:323  the group (zh|en) that follows "lang"
search_lang(low) ==
    LET i == AfterVerb(low, "lang")
        rest == IF i = 0 THEN <<>> ELSE SubSeq(low, i, Len(low))
    IN IF startswith(rest, Spell["zh"]) THEN <<Spell["zh"]>>
       ELSE IF startswith(rest, Spell["en"]) THEN <<Spell["en"]>>
       ELSE <<>>

\* tasks.py:203, 221-329  the chain of tests of the handler on the lower-case text, in
\* the order of the code: the branch taken, and the argument the branch reads
Interpret(low) ==
    LET is(ws) == startswith(low, Chars(ws))
        none == [verb |-> "none", hour |-> <<>>, word |-> ""]
    IN IF ~is(<<"#summary">>) THEN [none EXCEPT !.verb = "ignored"]
       ELSE IF is(<<"#summary", "login">>) THEN [none EXCEPT !.verb = "login"]
       ELSE IF is(<<"#summary", "logout">>) THEN [none EXCEPT !.verb = "logout"]
       ELSE IF is(<<"#summary", "range">>) THEN [none EXCEPT !.verb = "range"]
       ELSE IF is(<<"#summary", "all", "range">>) THEN [none EXCEPT !.verb = "all_range"]
       ELSE IF is(<<"#summary", "once">>) THEN [none EXCEPT !.verb = "once"]
       ELSE IF is(<<"#summary", "off">>) THEN [none EXCEPT !.verb = "off"]
       ELSE IF is(<<"#summary", "on">>) THEN [none EXCEPT !.verb = "on"]
       ELSE IF search_at(low) # <<>>
            THEN [none EXCEPT !.verb = "at", !.hour = <<int(search_at(low)[1])>>]
       ELSE IF search_tz(low) # <<>>
            THEN [none EXCEPT !.verb = "tz", !.word = Unspell(search_tz(low)[1])]
       ELSE IF search_lang(low) # <<>>
            THEN [none EXCEPT !.verb = "lang", !.word = Unspell(search_lang(low)[1])]
       ELSE none

\* ------------------------------------------------------------------ initial states
\* The idempotency gate of freshly started web processes.
InitGate ==
    /\ redisOn \in BOOLEAN
    /\ redisKeys = {}
    /\ redisExpiry = {}
    /\ local_seen = [p \in WebProcs |-> {}]
    /\ calls = [k \in Slots |-> IdleCall]
    /\ lastTrue = [i \in MsgIds |-> {}]
    /\ localTrue = {}

InitWeb ==
    /\ hand = [k \in Slots |-> IdleHandler]
    /\ messages = {}
    /\ replies = {}

\* Scheduler workers that have just started, with no conversation registered.
InitIdleSched ==
    /\ chats = NoChats
    /\ summary_chat_ids = <<>>
    /\ summary_lock = {}
    /\ jobs = [j \in JobIds |-> IdleJob]
    /\ runs = {}

\* lark_client.py:15-20  an empty token cache, token_lock free, no request sent, no
\* coroutine inside get_tenant_access_token.  A token is the number of the request that
\* obtained it, in a one-element sequence; lock holds the coroutine inside the lock;
\* <<>> stands for no token and for the free lock.
IdleTok ==
    [co |-> [k \in Coroutines |-> [pc |-> "idle", ret |-> <<>>]],
     lock |-> <<>>, cache |-> <<>>, requests |-> 0, failures |-> 0]

\* No crud.set_chat_* call under way, no admin code configured, no command handled, no
\* token call.
InitIdleCmd ==
    /\ muts = [s \in Sessions |-> IdleMut]
    /\ admin_code = ""
    /\ tok = IdleTok
    /\ cmd = NoCmd
    /\ grants = [k \in AdminKeys |-> -1]

\* ------------------------------------------------------------------ SpecDedupe
InitDedupe ==
    /\ now = 0
    /\ ticks = 0
    /\ log = {}
    /\ InitGate
    /\ InitWeb
    /\ InitIdleSched
    /\ InitIdleCmd

\* A caller in process p enters _dedupe_mark(i).  main.py:121-123
\* (callers are anonymous: they are taken in index order)
Call(k, p, i) ==
    /\ calls[k].pc = "idle"
    /\ k > 1 => calls[k - 1].pc # "idle"
    /\ calls' = [calls EXCEPT ![k] = [@ EXCEPT !.pc = IF redisOn THEN "setnx" ELSE "local",
                                               !.proc = p, !.mid = i, !.prior = {e \in lastTrue[i] : e[2] = p}]]
    /\ UNCHANGED <<cmdVars, now, ticks, redisOn, redisKeys, redisExpiry, local_seen, lastTrue, localTrue, log, webVars, schedVars>>

\* main.py:125-129  ok = await _redis.setnx(key, "1"); not ok -> return False
DedupeSetnx(k) ==
    /\ calls[k].pc = "setnx"
    /\ LET key == DedupeKey(calls[k].mid) IN
       IF RedisSetnxOk(redisKeys, key)
       THEN /\ redisKeys' = redisKeys \cup {key}
            /\ calls' = [calls EXCEPT ![k].pc = "expire"]
            /\ lastTrue' = lastTrue
       ELSE /\ redisKeys' = redisKeys
            /\ Return(k, FALSE, "redis")
    /\ UNCHANGED <<cmdVars, now, ticks, redisOn, redisExpiry, local_seen, localTrue, log, webVars, schedVars>>

\* main.py:130-131  except Exception: pass   (setnx raised: fall through to the local cache)
DedupeSetnxRaises(k) ==
    /\ calls[k].pc = "setnx"
    /\ calls' = [calls EXCEPT ![k].pc = "local"]
    /\ UNCHANGED <<cmdVars, now, ticks, redisOn, redisKeys, redisExpiry, local_seen, lastTrue, localTrue, log, webVars, schedVars>>

\* main.py:127-128  await _redis.expire(key, _LOCAL_TTL); return True
DedupeExpire(k) ==
    /\ calls[k].pc = "expire"
    /\ LET key == DedupeKey(calls[k].mid) IN
       redisExpiry' = IF key \in redisKeys THEN RedisExpire(redisExpiry, key, now, LOCAL_TTL)
                      ELSE redisExpiry
    /\ Return(k, TRUE, "redis")
    /\ UNCHANGED <<cmdVars, now, ticks, redisOn, redisKeys, local_seen, localTrue, log, webVars, schedVars>>

\* main.py:127,130-131  expire raised after a successful setnx: fall through to the local cache
DedupeExpireRaises(k) ==
    /\ calls[k].pc = "expire"
    /\ calls' = [calls EXCEPT ![k].pc = "local"]
    /\ UNCHANGED <<cmdVars, now, ticks, redisOn, redisKeys, redisExpiry, local_seen, lastTrue, localTrue, log, webVars, schedVars>>

\* main.py:132-140  local fallback (no await: one atomic step of the process)
DedupeLocal(k) ==
    /\ calls[k].pc = "local"
    /\ LET p == calls[k].proc
           key == DedupeKey(calls[k].mid)
           purged == LocalPurge(local_seen[p], now)
           hit == LocalHas(purged, key)
       IN /\ local_seen' = [local_seen EXCEPT ![p] =
                               IF hit THEN purged ELSE purged \cup {<<key, now>>}]
          /\ localTrue' = IF hit THEN localTrue ELSE localTrue \cup {<<p, calls[k].mid, now>>}
          /\ Return(k, ~hit, "local")
    /\ UNCHANGED <<cmdVars, now, ticks, redisOn, redisKeys, redisExpiry, log, webVars, schedVars>>

\* The clock advances by d seconds; Redis drops the keys whose TTL has elapsed.
Tick(d) ==
    /\ ticks < MaxTicks
    /\ ticks' = ticks + 1
    /\ now' = now + d
    /\ redisKeys' = RedisLive(redisKeys, redisExpiry, now + d)
    /\ redisExpiry' = {e \in redisExpiry : e[2] > now + d}
    /\ UNCHANGED <<cmdVars, redisOn, local_seen, calls, lastTrue, localTrue, log, webVars, schedVars>>

NextDedupe ==
    \/ \E k \in Callers, p \in WebProcs, i \in MsgIds : Call(k, p, i)
    \/ \E k \in Callers : DedupeSetnx(k)
    \/ \E k \in Callers : DedupeSetnxRaises(k)
    \/ \E k \in Callers : DedupeExpire(k)
    \/ \E k \in Callers : DedupeExpireRaises(k)
    \/ \E k \in Callers : DedupeLocal(k)
    \/ \E d \in TickSteps : Tick(d)

SpecDedupe == InitDedupe /\ [][NextDedupe]_vars


\* ------------------------------------------------------------------ SpecEvent
\* main.py:250-280  _process_lark_event(event) starts in web process p: it spawns
\* record_message (main.py:263-265) and, when the event has a message id, enters
\* _dedupe_mark (main.py:277-278).
ProcessEvent(k, p, e) ==
    /\ hand[k].pc = "idle"
    /\ k > 1 => hand[k - 1].pc # "idle"
    /\ hand' = [hand EXCEPT ![k] = [pc |-> IF e.message_id # "" THEN "gate" ELSE "nogate",
                                    rec |-> "upsert", ev |-> e]]
    /\ calls' = IF e.message_id # ""
                THEN [calls EXCEPT ![k] = [@ EXCEPT !.pc = IF redisOn THEN "setnx" ELSE "local",
                                  !.proc = p, !.mid = e.message_id,
                                  !.prior = {x \in lastTrue[e.message_id] : x[2] = p}]]
                ELSE calls
    /\ UNCHANGED <<cmdVars, now, ticks, redisOn, redisKeys, redisExpiry, local_seen, lastTrue, localTrue,
                   log, messages, replies, schedVars>>

\* tasks.py:168-170  record_message: only text messages are stored; upsert_chat first
RecUpsert(k) ==
    /\ hand[k].rec = "upsert"
    /\ LET e == hand[k].ev IN
       IF e.message_type = "text" /\ e.text # ""
       THEN /\ chats' = upsert_chat(chats, e.chat_id)
            /\ hand' = [hand EXCEPT ![k].rec = "check"]
       ELSE /\ chats' = chats
            /\ hand' = [hand EXCEPT ![k].rec = "done"]
    /\ UNCHANGED <<cmdVars, now, ticks, redisOn, redisKeys, redisExpiry, local_seen, calls, lastTrue,
                   localTrue, log, messages, replies,
                   summary_chat_ids, summary_lock, jobs, runs>>

\* crud.py:76-86  save_message: select the row; return if it exists
RecCheck(k) ==
    /\ hand[k].rec = "check"
    /\ hand' = [hand EXCEPT ![k].rec = IF MessageExists(messages, hand[k].ev) THEN "done" ELSE "insert"]
    /\ UNCHANGED <<cmdVars, now, ticks, redisOn, redisKeys, redisExpiry, local_seen, calls, lastTrue,
                   localTrue, log, messages, replies, schedVars>>

\* crud.py:87-90  save_message: db.add(m); await db.commit()
RecInsert(k) ==
    /\ hand[k].rec = "insert"
    /\ messages' = InsertMessage(messages, hand[k].ev)
    /\ hand' = [hand EXCEPT ![k].rec = "done"]
    /\ UNCHANGED <<cmdVars, now, ticks, redisOn, redisKeys, redisExpiry, local_seen, calls, lastTrue,
                   localTrue, log, replies, schedVars>>

\* crud.py:91-92, tasks.py:172-173  a database error in record_message is swallowed
RecRaises(k) ==
    /\ hand[k].rec \in {"upsert", "check", "insert"}
    /\ hand' = [hand EXCEPT ![k].rec = "failed"]
    /\ UNCHANGED <<cmdVars, now, ticks, redisOn, redisKeys, redisExpiry, local_seen, calls, lastTrue,
                   localTrue, log, messages, replies, schedVars>>

\* main.py:278-368  after the gate: a duplicate returns; otherwise the message is
\* routed by type and answered with one reply_text call when it calls for an answer.
Handle(k) ==
    /\ \/ hand[k].pc = "nogate"
       \/ hand[k].pc = "gate" /\ calls[k].pc = "done"
    /\ LET e == hand[k].ev
           first == hand[k].pc = "nogate" \/ calls[k].res
       IN replies' = IF first /\ Answers(e)
                     THEN replies \cup {[by |-> k, to |-> e.chat_id, mid |-> e.message_id]}
                     ELSE replies
    /\ hand' = [hand EXCEPT ![k].pc = "done"]
    /\ UNCHANGED <<cmdVars, now, ticks, redisOn, redisKeys, redisExpiry, local_seen, calls, lastTrue,
                   localTrue, log, messages, schedVars>>

InitEvent ==
    /\ now = 0
    /\ ticks = 0
    /\ log = {}
    /\ InitGate
    /\ InitWeb
    /\ InitIdleSched
    /\ InitIdleCmd

NextEvent ==
    \/ \E k \in Deliveries, p \in WebProcs, e \in Events : ProcessEvent(k, p, e)
    \/ \E k \in Deliveries : hand[k].pc = "gate" /\ DedupeSetnx(k)
    \/ \E k \in Deliveries : hand[k].pc = "gate" /\ DedupeSetnxRaises(k)
    \/ \E k \in Deliveries : hand[k].pc = "gate" /\ DedupeExpire(k)
    \/ \E k \in Deliveries : hand[k].pc = "gate" /\ DedupeExpireRaises(k)
    \/ \E k \in Deliveries : hand[k].pc = "gate" /\ DedupeLocal(k)
    \/ \E k \in Deliveries : RecUpsert(k)
    \/ \E k \in Deliveries : RecCheck(k)
    \/ \E k \in Deliveries : RecInsert(k)
    \/ \E k \in Deliveries : RecRaises(k)
    \/ \E k \in Deliveries : Handle(k)

SpecEvent == InitEvent /\ [][NextEvent]_vars


\* ------------------------------------------------------------------ SpecSched
\* Two scheduler workers, each with the hourly scan and the daily fallback job, and a
\* web process that handles "#summary once".  The clock moves in whole hours, from
\* 07:00 Asia/Taipei; conversation c1 is enabled for 08:00 Asia/Taipei and has one
\* message stored for the day before, conversation c2 was switched off.
InitSched ==
    /\ now = 23 * 3600
    /\ ticks = 0
    /\ log = {}
    /\ InitGate
    /\ hand = [k \in Slots |-> IdleHandler]
    /\ messages = {<<1, "c1", 36000000, "hello">>}
    /\ replies = {}
    /\ chats = [c \in {"c1", "c2"} |->
                  IF c = "c1" THEN DefaultChat
                  ELSE [DefaultChat EXCEPT !.enabled = FALSE, !.tz = "UTC"]]
    /\ summary_chat_ids = <<>>
    /\ summary_lock = {}
    /\ jobs = [j \in JobIds |-> IdleJob]
    /\ runs = {}
    /\ InitIdleCmd

schedFrame == <<redisOn, redisKeys, redisExpiry, local_seen, calls, lastTrue, localTrue,
                webVars, chats, summary_chat_ids>>

\* scheduler_worker.py:78-83, 96-97, 51-55  the loop over the listed conversations runs
\* without suspension up to the next conversation it handles: the hourly scan skips the
\* conversations whose local hour does not match, and the execution path is entered for
\* the first remaining one with today's date key computed at that instant.  ZoneInfo(tz)
\* raises for a zone name it cannot resolve, at line 81 in the hourly scan and at line
\* 55, before the try, in the fallback pass: the job function ends by that exception
\* with the conversations from that one on unhandled.
RECURSIVE SkipToDue(_, _, _)
SkipToDue(list, kind, t) ==
    IF list = <<>> THEN <<>>
    ELSE IF kind = "hourly_scan" /\ Head(list).tz \in KnownZones /\ ~DueNow(Head(list), t)
         THEN SkipToDue(Tail(list), kind, t)
    ELSE list

Enter(j, list, t) ==
    LET rest == SkipToDue(list, j[2], t) IN
    IF rest = <<>> THEN [IdleJob EXCEPT !.fired = TRUE]
    ELSE IF Head(rest).tz \notin KnownZones
         THEN [IdleJob EXCEPT !.pc = "crashed", !.todo = rest, !.fired = TRUE]
    ELSE [pc |-> "lock_check", todo |-> rest, today |-> today_str_in_tz(Head(rest).tz, t),
          got |-> "none", fired |-> TRUE, 
          tick |-> IF jobs[j].pc \in {"idle", "crashed"} THEN t ELSE jobs[j].tick]

\* The job leaves the conversation at the head of its list.
Advance(j) == Enter(j, Tail(jobs[j].todo), now)

\* scheduler_worker.py:106-119  add_job is called without max_instances: the scheduler
\* runs at most one instance of each job at a time
max_instances == 1

Running_UntilReturn(j) == jobs[j].pc # "idle"

\* Is job j inside its job function.
Running(j) == jobs[j].pc \notin {"idle", "crashed"}

CanStartJob_Always(j) == TRUE

\* scheduler_worker.py:106-119  the scheduler submits a run of job j when its trigger
\* fires and fewer than max_instances instances of it are running; the way the
\* previous run ended, by return or by exception, does not matter
CanStartJob(j) == (IF Running(j) THEN 1 ELSE 0) < max_instances

\* scheduler_worker.py:108, 116  the trigger of job j fires now (the fallback at 08:00
\* DEFAULT_TZ)
TriggerFires(j) ==
    /\ ~jobs[j].fired
    /\ j[2] = "daily_fallback" => now_hour_in_tz(DEFAULT_TZ, now) = 8

\* scheduler_worker.py:72-77, 86-94  the cron trigger fires job j (the fallback at 08:00
\* DEFAULT_TZ): it reads the enabled conversations
StartJob(j) ==
    /\ TriggerFires(j)
    /\ CanStartJob(j)
    /\ jobs' = [jobs EXCEPT ![j] = Enter(j, get_all_chats(chats, summary_chat_ids), now)]
    /\ UNCHANGED <<cmdVars, now, ticks, log, schedFrame, summary_lock, runs>>

\* scheduler_worker.py:45-47, 73  the read of the conversation table raises: the job
\* function ends by that exception
StartJobRaises(j) ==
    /\ TriggerFires(j)
    /\ CanStartJob(j)
    /\ jobs' = [jobs EXCEPT ![j] = [IdleJob EXCEPT !.pc = "crashed", !.fired = TRUE]]
    /\ UNCHANGED <<cmdVars, now, ticks, log, schedFrame, summary_lock, runs>>

\* The record of one finished execution path: got is the outcome of the lock step
\* ("acquired", "refused": the row exists, "failed": the commit raised, "error": the
\* select raised and got = True, "nolock": no lock step), out what the pipeline sent
\* ("summary", "tip": no messages, "raised": nothing, "none": pipeline not invoked);
\* window is the range the invoked pipeline computed first (tasks.py:339).
RunRecord(j, got, out) ==
    [chat |-> Head(jobs[j].todo).chat_id, date |-> jobs[j].today, by |-> j,
     tick |-> jobs[j].tick, got |-> got, out |-> out,
     window |-> IF out = "none" THEN <<>> ELSE yesterday_range(Head(jobs[j].todo).tz, now)]

\* crud.py:111-115, scheduler_worker.py:62-64  the select finds the row: False, skip
\* crud.py:116  no row: go on to the insert
LockCheck(j) ==
    /\ jobs[j].pc = "lock_check"
    /\ LET c == Head(jobs[j].todo) IN
       IF <<jobs[j].today, c.chat_id>> \in summary_lock
       THEN /\ jobs' = [jobs EXCEPT ![j] = Advance(j)]
            /\ runs' = runs \cup {RunRecord(j, "refused", "none")}
       ELSE /\ jobs' = [jobs EXCEPT ![j].pc = "lock_insert"]
            /\ runs' = runs
    /\ UNCHANGED <<cmdVars, now, ticks, log, schedFrame, summary_lock>>

\* scheduler_worker.py:57-61  opening the session or the select raises: got = True
LockCheckRaises(j) ==
    /\ jobs[j].pc = "lock_check"
    /\ jobs' = [jobs EXCEPT ![j] = [@ EXCEPT !.pc = "summarize", !.got = "error"]]
    /\ log' = log \cup {[level |-> "warning", what |-> "lock acquire failed"]}
    /\ UNCHANGED <<cmdVars, now, ticks, schedFrame, summary_lock, runs>>

\* crud.py:116-122  db.add(SummaryLock(...)); commit -> True; a refused commit -> False
LockInsert(j) ==
    /\ jobs[j].pc = "lock_insert"
    /\ LET c == Head(jobs[j].todo) IN
       IF LockInsertOk(summary_lock, jobs[j].today, c.chat_id)
       THEN /\ summary_lock' = summary_lock \cup {<<jobs[j].today, c.chat_id>>}
            /\ jobs' = [jobs EXCEPT ![j] = [@ EXCEPT !.pc = "summarize", !.got = "acquired"]]
            /\ runs' = runs
       ELSE /\ jobs' = [jobs EXCEPT ![j] = Advance(j)]
            /\ runs' = runs \cup {RunRecord(j, "refused", "none")}
            /\ UNCHANGED summary_lock
    /\ UNCHANGED <<cmdVars, now, ticks, log, schedFrame>>

\* crud.py:120-122  the commit raises for another reason (connection lost): rollback, False
LockInsertRaises(j) ==
    /\ jobs[j].pc = "lock_insert"
    /\ jobs' = [jobs EXCEPT ![j] = Advance(j)]
    /\ runs' = runs \cup {RunRecord(j, "failed", "none")}
    /\ UNCHANGED <<cmdVars, now, ticks, log, schedFrame, summary_lock>>

\* scheduler_worker.py:65-67, tasks.py:336-361  the summarization pipeline runs for the
\* conversation over yesterday's window and sends its output
Summarize(j) ==
    /\ jobs[j].pc = "summarize"
    /\ LET c == Head(jobs[j].todo) IN
       runs' = runs \cup {RunRecord(j, jobs[j].got, PipelineOutput(messages, c.chat_id, yesterday_range(c.tz, now)))}
    /\ jobs' = [jobs EXCEPT ![j] = Advance(j)]
    /\ UNCHANGED <<cmdVars, now, ticks, log, schedFrame, summary_lock>>

\* scheduler_worker.py:68-69, tasks.py:345-346  the pipeline raises (message query fails):
\* logged by the worker, nothing is sent
SummarizeRaises(j) ==
    /\ jobs[j].pc = "summarize"
    /\ runs' = runs \cup {RunRecord(j, jobs[j].got, "raised")}
    /\ jobs' = [jobs EXCEPT ![j] = Advance(j)]
    /\ log' = log \cup {[level |-> "error", what |-> "summarize failed"]}
    /\ UNCHANGED <<cmdVars, now, ticks, schedFrame, summary_lock>>

\* tasks.py:246-248, 290-293, 336-340  "#summary once" in conversation c, past the
\* idempotency gate: the pipeline runs at once over yesterday of DEFAULT_TZ
OnceCommand(c) ==
    /\ chats' = upsert_chat(chats, c)
    /\ runs' = runs \cup {[chat |-> c, date |-> today_str_in_tz(DEFAULT_TZ, now), by |-> <<"web", "once">>, tick |-> 0,
                           got |-> "nolock", window |-> yesterday_range(DEFAULT_TZ, now),
                           out |-> PipelineOutput(messages, c, yesterday_range(DEFAULT_TZ, now))]}
    /\ runs' # runs
    /\ UNCHANGED <<cmdVars, now, ticks, log, redisOn, redisKeys, redisExpiry, local_seen, calls, lastTrue,
                   localTrue, webVars, summary_chat_ids, summary_lock, jobs>>

\* scheduler_worker.py:106-119, 124-126  one hour passes and the cron triggers fire: a
\* job that can start is armed, to start at some instant of the hour; the run of a job
\* whose previous instance has not returned is skipped, and the instance is left alone.
TickHour ==
    /\ ticks < MaxTicks
    /\ ticks' = ticks + 1
    /\ now' = now + 3600
    /\ jobs' = [j \in JobIds |-> IF CanStartJob(j) THEN [jobs[j] EXCEPT !.fired = FALSE] ELSE jobs[j]]
    /\ UNCHANGED <<cmdVars, log, schedFrame, summary_lock, runs>>

\* the job whose read of the conversation table fails
RaisingJobs == {<<"w2", "daily_fallback">>}

NextSched ==
    \/ \E j \in JobIds : StartJob(j)
    \/ \E j \in RaisingJobs : StartJobRaises(j)
    \/ \E j \in JobIds : LockCheck(j)
    \/ \E j \in JobIds : LockCheckRaises(j)
    \/ \E j \in JobIds : LockInsert(j)
    \/ \E j \in JobIds : LockInsertRaises(j)
    \/ \E j \in JobIds : Summarize(j)
    \/ \E j \in JobIds : SummarizeRaises(j)
    \/ \E c \in {"c1", "c2"} : OnceCommand(c)
    \/ TickHour

SpecSched == InitSched /\ [][NextSched]_vars

\* ------------------------------------------------------------------ SpecChat
\* Database sessions that call crud.set_chat_enabled / crud.set_chat_schedule, each
\* with its own read, modify and commit steps.
SeedChat == [enabled |-> TRUE, summary_hour |-> 20, tz |-> "UTC", lang |-> "zh"]

\* The calls made: off, on, and one call per schedule field (hour 25 is out of range).
ChatCalls ==
    {set_chat_enabled_args(FALSE), set_chat_enabled_args(TRUE),
     set_chat_schedule_args(<<9>>, "", ""), set_chat_schedule_args(<<25>>, "", ""),
     set_chat_schedule_args(<<>>, "Asia/Tokyo", ""), set_chat_schedule_args(<<>>, "", "en")}

InitChat ==
    /\ now = 0
    /\ ticks = 0
    /\ log = {}
    /\ InitGate
    /\ InitWeb
    /\ chats \in {[c \in {"c2"} |-> DefaultChat],
                  [c \in {"c1", "c2"} |-> IF c = "c1" THEN SeedChat ELSE DefaultChat]}
    /\ summary_chat_ids = <<>>
    /\ summary_lock = {}
    /\ jobs = [j \in JobIds |-> IdleJob]
    /\ runs = {}
    /\ InitIdleCmd

chatFrame == <<now, ticks, log, redisOn, redisKeys, redisExpiry, local_seen, calls, lastTrue,
               localTrue, webVars, summary_chat_ids, summary_lock, jobs, runs, admin_code, tok, cmd, grants>>

EnterCall(s, c, a) ==
    [pc |-> "select", chat |-> c, args |-> a, row |-> <<>>, ok |-> "none",
     seq |-> \A t \in 1..(s - 1) : muts[t].pc = "done"]

\* crud.py:23, 35  session s enters set_chat_enabled / set_chat_schedule for conversation c
\* (the sessions are taken in index order)
CrudBegin(s, c, a) ==
    /\ muts[s].pc = "idle"
    /\ s > 1 => muts[s - 1].pc # "idle"
    /\ muts' = [muts EXCEPT ![s] = EnterCall(s, c, a)]
    /\ UNCHANGED <<chatFrame, chats>>

\* tasks.py:246-248, 295-329  the handler of "#summary off / on / at / tz / lang" in
\* conversation c: upsert_chat, then the crud call
CommandBegin(s, c, a) ==
    /\ muts[s].pc = "idle"
    /\ s > 1 => muts[s - 1].pc # "idle"
    /\ chats' = upsert_chat(chats, c)
    /\ muts' = [muts EXCEPT ![s] = EnterCall(s, c, a)]
    /\ UNCHANGED chatFrame

\* crud.py:24, 38  row = (await db.execute(select(Chat)...)).scalar_one_or_none()
SetChatSelect(s) ==
    /\ muts[s].pc = "select"
    /\ muts' = [muts EXCEPT ![s] = [@ EXCEPT !.pc = "commit",
                   !.row = IF muts[s].chat \in DOMAIN chats THEN <<chats[muts[s].chat]>> ELSE <<>>]]
    /\ UNCHANGED <<chatFrame, chats>>

\* crud.py:25-33, 39-51  the row is built or modified, then committed; a refused
\* commit is rolled back and swallowed
SetChatCommit(s) ==
    /\ muts[s].pc = "commit"
    /\ LET c == muts[s].chat
           a == muts[s].args
       IN IF muts[s].row # <<>>
          THEN /\ chats' = [chats EXCEPT ![c] = FlushUpdate(@, muts[s].row[1], a)]
               /\ muts' = [muts EXCEPT ![s] = [@ EXCEPT !.pc = "done", !.ok = "committed"]]
          ELSE IF ChatInsertOk(chats, c)
          THEN /\ chats' = InsertChat(chats, c, AssignFields(DefaultChat, a))
               /\ muts' = [muts EXCEPT ![s] = [@ EXCEPT !.pc = "done", !.ok = "committed"]]
          ELSE /\ chats' = chats
               /\ muts' = [muts EXCEPT ![s] = [@ EXCEPT !.pc = "done", !.ok = "conflict"]]
    /\ UNCHANGED chatFrame

\* crud.py:32-33, 50-51  the database fails: a failed commit is rolled back and
\* swallowed, a failed select leaves the call by its exception
SetChatRaises(s) ==
    /\ muts[s].pc \in {"select", "commit"}
    /\ muts' = [muts EXCEPT ![s] = [@ EXCEPT !.pc = "done", !.ok = "error"]]
    /\ UNCHANGED <<chatFrame, chats>>

NextChat ==
    \/ \E s \in Sessions, c \in {"c1", "c2"}, a \in ChatCalls : CrudBegin(s, c, a)
    \/ \E s \in Sessions : SetChatSelect(s)
    \/ \E s \in Sessions : SetChatCommit(s)
    \/ \E s \in Sessions : SetChatRaises(s)

SpecChat == InitChat /\ [][NextChat]_vars

\* ------------------------------------------------------------------ SpecToggle
\* "#summary off" and "#summary on" commands in conversation c1 next to the scheduler
\* jobs of a worker, at 08:00 Asia/Taipei; both conversations are configured for that
\* hour, and c2 is switched on or off from the start.
InitToggle ==
    /\ now = 24 * 3600
    /\ ticks = 0
    /\ log = {}
    /\ InitGate
    /\ redisOn
    /\ InitWeb
    /\ chats \in {[c \in {"c1", "c2"} |-> IF c = "c1" THEN DefaultChat
                                          ELSE [DefaultChat EXCEPT !.enabled = b]] : b \in BOOLEAN}
    /\ summary_chat_ids \in {<<>>, <<"c1">>}
    /\ summary_lock = {}
    /\ jobs = [j \in JobIds |-> IdleJob]
    /\ runs = {}
    /\ InitIdleCmd

\* the jobs of one worker
ToggleJobs == {"w1"} \X JobKinds

NextToggle ==
    \/ \E s \in Sessions, b \in BOOLEAN : CommandBegin(s, "c1", set_chat_enabled_args(b))
    \/ \E s \in Sessions : SetChatSelect(s)
    \/ \E s \in Sessions : SetChatCommit(s)
    \/ \E s \in Sessions : SetChatRaises(s)
    \/ \E j \in ToggleJobs : StartJob(j)
    \/ \E j \in ToggleJobs : LockCheck(j)
    \/ \E j \in ToggleJobs : LockInsert(j)
    \/ \E j \in ToggleJobs : Summarize(j)

SpecToggle == InitToggle /\ [][NextToggle]_vars

\* ------------------------------------------------------------------ SpecTicks
\* One scheduler process over successive hours: its hourly scan and its fallback pass,
\* with every failure of the conversation table, of the lock and of the pipeline, and
\* with hours that pass while the previous run of a job has not returned.  c1 is
\* due at 08:00 Asia/Taipei, and c2 one hour earlier, at 08:00 Asia/Tokyo or in the last
\* hour of the day at 23:00 UTC, or in the same hour as c1.  The jobs are those of
\* worker w1, ToggleJobs.
InitTicks ==
    /\ now = 23 * 3600
    /\ ticks = 0
    /\ log = {}
    /\ InitGate
    /\ redisOn
    /\ InitWeb
    /\ \E z \in {"Asia/Tokyo", "Asia/Taipei", "UTC"} :
          chats = [c \in {"c1", "c2"} |->
                     IF c = "c1" THEN DefaultChat
                     ELSE [DefaultChat EXCEPT !.tz = z, !.summary_hour = IF z = "UTC" THEN 23 ELSE 8]]
    /\ summary_chat_ids = <<>>
    /\ summary_lock = {}
    /\ jobs = [j \in JobIds |-> IdleJob]
    /\ runs = {}
    /\ InitIdleCmd

NextTicks ==
    \/ \E j \in ToggleJobs : StartJob(j)
    \/ \E j \in ToggleJobs : StartJobRaises(j)
    \/ \E j \in ToggleJobs : LockCheck(j)
    \/ \E j \in ToggleJobs : LockCheckRaises(j)
    \/ \E j \in ToggleJobs : LockInsert(j)
    \/ \E j \in ToggleJobs : LockInsertRaises(j)
    \/ \E j \in ToggleJobs : Summarize(j)
    \/ \E j \in ToggleJobs : SummarizeRaises(j)
    \/ TickHour

SpecTicks == InitTicks /\ [][NextTicks]_vars

\* ------------------------------------------------------------------ SpecScan
\* One hourly scan and one fallback pass of one scheduler process at every hour of a
\* day, over conversation c1 with every summary hour and a timezone that resolves or
\* does not, and conversation c2 with the column defaults, with the failures of the
\* lock and of the pipeline.  The jobs are those of worker w1, ToggleJobs.
InitScan ==
    /\ now \in {86400 + h * 3600 : h \in 0..23}
    /\ ticks = 0
    /\ log = {}
    /\ InitGate
    /\ redisOn
    /\ InitWeb
    /\ chats \in {[c \in {"c1", "c2"} |->
                    IF c = "c1" THEN [DefaultChat EXCEPT !.summary_hour = h, !.tz = z]
                    ELSE DefaultChat] : h \in 0..23, z \in {"Asia/Taipei", "UTC", "mars/phobos"}}
    /\ summary_chat_ids = <<>>
    /\ summary_lock = {}
    /\ jobs = [j \in JobIds |-> IdleJob]
    /\ runs = {}
    /\ InitIdleCmd

NextScan ==
    \/ \E j \in ToggleJobs : StartJob(j)
    \/ \E j \in ToggleJobs : LockCheck(j)
    \/ \E j \in ToggleJobs : LockCheckRaises(j)
    \/ \E j \in ToggleJobs : LockInsert(j)
    \/ \E j \in ToggleJobs : LockInsertRaises(j)
    \/ \E j \in ToggleJobs : Summarize(j)
    \/ \E j \in ToggleJobs : SummarizeRaises(j)

SpecScan == InitScan /\ [][NextScan]_vars

\* ------------------------------------------------------------------ SpecCmd
\* The handler of the "#summary" commands login, logout, range and all range
\* (tasks.py:177-287), one command at a time, with the clock and the Redis that holds
\* the admin sessions.  The commands are sent in conversation c1; c1 and c2 are both
\* switched on, so a bulk summary reaches both.
\* the clock steps: two seconds, and one second short of the session TTL
AdminSteps == {2, ADMIN_TTL_SEC - 1}

InitCmd ==
    /\ now = 0
    /\ ticks = 0
    /\ log = {}
    /\ InitGate
    /\ InitWeb
    /\ chats = [c \in ChatIds |-> DefaultChat]
    /\ summary_chat_ids = <<>>
    /\ summary_lock = {}
    /\ jobs = [j \in JobIds |-> IdleJob]
    /\ runs = {}
    /\ muts = [s \in Sessions |-> IdleMut]
    /\ admin_code \in {"", "s3cret"}
    /\ tok = IdleTok
    /\ cmd = NoCmd
    /\ grants = [k \in AdminKeys |-> -1]

cmdFrame == <<now, ticks, log, redisOn, local_seen, calls, lastTrue, localTrue, webVars,
              summary_chat_ids, summary_lock, jobs, runs, muts, admin_code, tok>>

\* The record of the command that is being handled.
Outcome(name, u, c, code, rg, reply, invoked) ==
    [cmd |-> name, user |-> u, chat |-> c, code |-> code, range |-> rg,
     reply |-> reply, invoked |-> invoked,
     live_user |-> u # "" /\ RedisGet(redisKeys, redisExpiry, AdminKey(u), now),
     live_chat |-> RedisGet(redisKeys, redisExpiry, AdminChatKey(c), now),
     text |-> <<>>, commit |-> "none"]

\* tasks.py:230-235  the key a login is stored under: the sender's, else the conversation's
LoginKey(u, c) == IF u # "" THEN AdminKey(u) ELSE AdminChatKey(c)

\* tasks.py:221-236  "#summary login <code>" from sender u in conversation c;
\* tasks.py:64-67, 74-77  _set_admin / _set_admin_chat return at once without Redis
Login(u, c, code) ==
    LET reply == LoginReply(admin_code, code, u)
        granted == reply \in {"granted_user", "granted_chat"}
    IN /\ IF granted /\ redisOn
          THEN /\ redisKeys' = redisKeys \cup {LoginKey(u, c)}
               /\ redisExpiry' = RedisSetEx(redisExpiry, LoginKey(u, c), now, ADMIN_TTL_SEC)
          ELSE UNCHANGED <<redisKeys, redisExpiry>>
       /\ grants' = IF granted THEN [grants EXCEPT ![LoginKey(u, c)] = now] ELSE grants
       /\ cmd' = Outcome("login", u, c, code, NoCmd.range, reply, {})
       /\ UNCHANGED <<cmdFrame, chats>>

\* tasks.py:231, 234, 331-332  the Redis SET raises: the handler ends without a reply
LoginRaises(u, c, code) ==
    /\ redisOn
    /\ LoginReply(admin_code, code, u) \in {"granted_user", "granted_chat"}
    /\ cmd' = Outcome("login", u, c, code, NoCmd.range, "none", {})
    /\ UNCHANGED <<cmdFrame, chats, redisKeys, redisExpiry, grants>>

LogoutKeys_All(u, c) == AdminKeys

\* tasks.py:239-241, 69-82  the keys "#summary logout" deletes: the sender's key when the
\* event exposes a sender id, and the conversation's key
LogoutKeys(u, c) == {AdminChatKey(c)} \cup (IF u # "" THEN {AdminKey(u)} ELSE {})

\* tasks.py:72, 82  _redis.delete of the keys in gone; without Redis nothing is deleted
RedisDelete(gone) ==
    /\ redisKeys' = IF redisOn THEN redisKeys \ gone ELSE redisKeys
    /\ redisExpiry' = IF redisOn THEN {e \in redisExpiry : e[1] \notin gone} ELSE redisExpiry
    /\ grants' = [k \in AdminKeys |-> IF k \in gone THEN -1 ELSE grants[k]]

\* tasks.py:238-244  "#summary logout": the sender's key and the conversation's key are deleted
Logout(u, c) ==
    /\ RedisDelete(LogoutKeys(u, c))
    /\ cmd' = Outcome("logout", u, c, "", NoCmd.range, "logged_out", {})
    /\ UNCHANGED <<cmdFrame, chats>>

\* tasks.py:240-241, 331-332  a Redis DELETE raises: the handler ends without a reply,
\* with the sender's key deleted when it was the second DELETE that raised
LogoutRaises(u, c) ==
    /\ redisOn
    /\ \E gone \in {{}} \cup (IF u # "" THEN {{AdminKey(u)}} ELSE {}) : RedisDelete(gone)
    /\ cmd' = Outcome("logout", u, c, "", NoCmd.range, "none", {})
    /\ UNCHANGED <<cmdFrame, chats>>

\* tasks.py:246-265  "#summary range <d1> to <d2>" in conversation c
Range(c, rg) ==
    LET rng == parse_range(rg)
        reply == IF rng = <<>> THEN "usage"
                 ELSE IF RangeTooLarge(rng[1], rng[2]) THEN "too_large" ELSE "sent"
        se == start_end_from_dates(rng[1], rng[2])
    IN /\ chats' = upsert_chat(chats, c)
       /\ cmd' = Outcome("range", "", c, "", rg, reply,
                         IF reply = "sent" THEN {<<c, se[1], se[2]>>} ELSE {})
       /\ UNCHANGED <<cmdFrame, redisKeys, redisExpiry, grants>>

\* tasks.py:246-248, 268-287, 365-379  "#summary all range <d1> to <d2>" from sender u in
\* conversation c: the admin check, the range checks, then the pipeline for every
\* listed conversation
AllRange(u, c, rg) ==
    LET table == upsert_chat(chats, c)
        rng == parse_range(rg)
        reply == IF ~is_admin_both(redisOn, redisKeys, redisExpiry, u, c, now) THEN "denied"
                 ELSE IF rng = <<>> THEN "usage"
                 ELSE IF RangeTooLarge(rng[1], rng[2]) THEN "too_large" ELSE "done"
        se == start_end_from_dates(rng[1], rng[2])
        list == get_all_chats(table, summary_chat_ids)
    IN /\ chats' = table
       /\ cmd' = Outcome("all_range", u, c, "", rg, reply,
                         IF reply = "done"
                         THEN {<<list[n].chat_id, se[1], se[2]>> : n \in 1..Len(list)} ELSE {})
       /\ UNCHANGED <<cmdFrame, redisKeys, redisExpiry, grants>>

\* tasks.py:270, 89-92, 331-332  a Redis GET of the admin check raises: the handler ends
\* without a reply
AllRangeRaises(u, c, rg) ==
    /\ redisOn
    /\ chats' = upsert_chat(chats, c)
    /\ cmd' = Outcome("all_range", u, c, "", rg, "none", {})
    /\ UNCHANGED <<cmdFrame, redisKeys, redisExpiry, grants>>

\* the conversation the commands are sent in
CmdChats == {"c1"}

NextCmd ==
    \/ \E u \in Users, c \in CmdChats, code \in Codes : Login(u, c, code)
    \/ \E u \in Users, c \in CmdChats, code \in Codes : LoginRaises(u, c, code)
    \/ \E u \in Users, c \in CmdChats : Logout(u, c)
    \/ \E u \in Users, c \in CmdChats : LogoutRaises(u, c)
    \/ \E c \in CmdChats, rg \in RangeTexts : Range(c, rg)
    \/ \E u \in Users, c \in CmdChats, rg \in RangeTexts : AllRange(u, c, rg)
    \/ \E u \in Users, c \in CmdChats, rg \in RangeTexts : AllRangeRaises(u, c, rg)
    \/ \E d \in AdminSteps : Tick(d)

SpecCmd == InitCmd /\ [][NextCmd]_vars

\* ------------------------------------------------------------------ SpecText
\* The handler of the "#summary" commands once, off, on, at, tz and lang (tasks.py:177-329)
\* on the text of the message, one message at a time in conversation c1, with the
\* commit of the change succeeding or refused.
CommandTexts ==
    {<<"#summary", "on">>, <<"#summary", "off">>, <<"#summary", "once">>,
     <<"#summary", "online">>, <<"#summary", "offline">>, <<"#summary", "status">>,
     <<"#summary", "at", "9">>, <<"#summary", "at", "0">>, <<"#summary", "at", "25">>,
     <<"#summary", "tz", "UTC">>, <<"#summary", "tz", "mars">>,
     <<"#summary", "lang", "en">>, <<"#summary", "lang", "fr">>,
     <<"#summary", "enable", "all">>}

InitText ==
    /\ now = 86400
    /\ ticks = 0
    /\ log = {}
    /\ InitGate
    /\ redisOn
    /\ InitWeb
    /\ chats \in {[c \in {"c1", "c2"} |-> [DefaultChat EXCEPT !.enabled = b]] : b \in BOOLEAN}
    /\ summary_chat_ids = <<>>
    /\ summary_lock = {}
    /\ jobs = [j \in JobIds |-> IdleJob]
    /\ runs = {}
    /\ InitIdleCmd

\* tasks.py:295-329  the crud call of the branch taken, as the fields it provides; the
\* handler clamps the hour of "at" before it passes it on (line 309)
CrudArgs(cm) ==
    CASE cm.verb = "off" -> set_chat_enabled_args(FALSE)
      [] cm.verb = "on" -> set_chat_enabled_args(TRUE)
      [] cm.verb = "at" -> set_chat_schedule_args(<<ClampHour(cm.hour[1])>>, "", "")
      [] cm.verb = "tz" -> set_chat_schedule_args(<<>>, cm.word, "")
      [] cm.verb = "lang" -> set_chat_schedule_args(<<>>, "", cm.word)
      [] OTHER -> NoArgs

\* tasks.py:195-204, 246-248, 289-329  the message with the words ws arrives in
\* conversation c: upsert_chat, then the branch the text selects, with its reply
\* (lines 292, 298, 304, 312, 320, 328): "updated" for the confirmation of the change,
\* "none" when no branch is taken; once sends the summary itself
TextCommand(c, ws) ==
    LET cm == Interpret(lower(Chars(ws)))
        table == upsert_chat(chats, c)
        yr == yesterday_range(DEFAULT_TZ, now)
        reply == CASE cm.verb \in {"off", "on", "at", "tz", "lang"} -> "updated"
                   [] cm.verb = "once" -> "summary"
                   [] OTHER -> "none"
    IN /\ cm.verb \in {"once", "off", "on", "at", "tz", "lang", "none"}
       /\ chats' = [table EXCEPT ![c] = AssignFields(@, CrudArgs(cm))]
       /\ cmd' = [Outcome(cm.verb, "", c, "", NoCmd.range, reply,
                          IF cm.verb = "once" THEN {<<c, yr[1], yr[2]>>} ELSE {})
                  EXCEPT !.text = ws, !.commit = IF reply = "updated" THEN "ok" ELSE "none"]
       /\ UNCHANGED <<cmdFrame, redisKeys, redisExpiry, grants>>

\* crud.py:30-33, 48-51, tasks.py:295-329  the commit of the crud call of the branch is
\* refused by the database: set_chat_enabled / set_chat_schedule roll back, swallow the
\* exception and return, and the handler goes on to send the reply of the branch
TextCommandRaises(c, ws) ==
    LET cm == Interpret(lower(Chars(ws)))
    IN /\ cm.verb \in {"off", "on", "at", "tz", "lang"}
       /\ chats' = upsert_chat(chats, c)
       /\ cmd' = [Outcome(cm.verb, "", c, "", NoCmd.range, "updated", {})
                  EXCEPT !.text = ws, !.commit = "refused"]
       /\ UNCHANGED <<cmdFrame, redisKeys, redisExpiry, grants>>

NextText ==
    \/ \E ws \in CommandTexts : TextCommand("c1", ws)
    \/ \E ws \in CommandTexts : TextCommandRaises("c1", ws)

SpecText == InitText /\ [][NextText]_vars

TypeOK == ticks \in 0..MaxTicks

\* ------------------------------------------------------------------ claims: summary lock
LockKeys == {<<r.chat, r.date>> : r \in runs}
ByScheduler(r) == r.by[2] \in JobKinds
Invoked(r) == r.out # "none"
Sent(r) == r.out \in {"summary", "tip"}
RunsOf(c, d) == {r \in runs : r.chat = c /\ r.date = d}

\* The jobs that hold a True answer of acquire_summary_lock for (c, d): those that went
\* on to the pipeline, and those between the lock step and the pipeline.
Acquirers(c, d) ==
    {r.by : r \in {x \in RunsOf(c, d) : x.got = "acquired"}}
    \cup {j \in JobIds : /\ jobs[j].pc = "summarize" /\ jobs[j].got = "acquired"
                         /\ Head(jobs[j].todo).chat_id = c /\ jobs[j].today = d}

\* C1: for any (conversation, date key), over every interleaving of hourly scans and
\* daily fallback passes of any number of scheduler processes, lock storage errors
\* included, at most one summarization pipeline invocation is made for the pair.
C1_AtMostOneInvocation ==
    \A k \in LockKeys :
        Cardinality({r \in RunsOf(k[1], k[2]) : ByScheduler(r) /\ Invoked(r)}) <= 1

\* C2: for any (conversation, date) key, across any number of concurrent
\* acquire_summary_lock calls from any processes, at most one call returns True.
C2_AtMostOneAcquire ==
    \A c \in DOMAIN chats : \A d \in {jobs[j].today : j \in JobIds} \cup {k[2] : k \in LockKeys} :
        Cardinality(Acquirers(c, d)) <= 1

\* C2 witness: a job of one worker passed the existence check and stands before its
\* insert while a job of the other worker has inserted the row and was answered True.
C2_Witness ==
    \E i, j \in JobIds :
        /\ i[1] # j[1]
        /\ jobs[i].pc = "summarize" /\ jobs[i].got = "acquired"
        /\ jobs[j].pc = "lock_insert"
        /\ Head(jobs[i].todo).chat_id = Head(jobs[j].todo).chat_id
        /\ jobs[i].today = jobs[j].today
        /\ <<jobs[i].today, Head(jobs[i].todo).chat_id>> \in summary_lock

\* C3: "#summary once" runs the execution path under the Summary Execution Lock: it
\* invokes the pipeline only if it acquires the lock for (conversation, today), so a
\* once after that day's scheduled summary, or a scheduled summary after a once,
\* produces no second pipeline invocation.
C3_OnceUnderLock ==
    \A r \in runs :
        (r.by[2] = "once" /\ Invoked(r)) =>
            /\ r.got = "acquired"
            /\ <<r.date, r.chat>> \in summary_lock
            /\ \A x \in RunsOf(r.chat, r.date) : Invoked(x) => x = r

\* C10: when two scheduler instances both evaluate the same enabled conversation at its
\* configured hour on the same date, exactly one of them produces a summary delivery;
\* the other observes lock failure and sends nothing (stated for two finished hourly
\* scans with no other trigger holding the lock, no commit failure and no pipeline error).
C10_SchedulerRace ==
    \A r1, r2 \in runs :
        (/\ r1.by[2] = "hourly_scan" /\ r2.by[2] = "hourly_scan"
         /\ r1.by[1] # r2.by[1]
         /\ r1.chat = r2.chat /\ r1.date = r2.date
         /\ Acquirers(r1.chat, r1.date) \subseteq {r1.by, r2.by}
         /\ r1.got # "failed" /\ r2.got # "failed"
         /\ r1.out # "raised" /\ r2.out # "raised")
        => Cardinality({r \in {r1, r2} : Sent(r)}) = 1

\* Is some job between entering and leaving the execution path of (c, d).
InFlight(c, d) ==
    \E j \in JobIds : /\ Running(j)
                      /\ Head(jobs[j].todo).chat_id = c /\ jobs[j].today = d

\* C11: if the periodic scan never fires during an enabled conversation's configured
\* hour on some date, the daily fallback pass still runs the execution path for it, so
\* that exactly one summary is produced for that conversation and date key (stated for
\* a date key that only fallback passes handled, all of them finished, with no commit
\* failure and no pipeline error).
C11_FallbackPass ==
    \A k \in LockKeys :
        (/\ \A r \in RunsOf(k[1], k[2]) :
                r.by[2] = "daily_fallback" /\ r.got # "failed" /\ r.out # "raised"
         /\ ~InFlight(k[1], k[2]))
        => Cardinality({r \in RunsOf(k[1], k[2]) : Sent(r)}) = 1

\* ------------------------------------------------------------------ claims: conversation settings
Begun == {s \in Sessions : muts[s].pc # "idle"}

Provides(a, f) ==
    CASE f = "enabled" -> a.enabled # <<>>
      [] f = "summary_hour" -> a.hour # <<>>
      [] f = "tz" -> a.tz # ""
      [] f = "lang" -> a.lang # ""

\* The value a call provides for a field; an hour is taken into 0..23.
ProvidedValue(a, f) ==
    CASE f = "enabled" -> a.enabled[1]
      [] f = "summary_hour" -> IF a.hour[1] > 23 THEN 23 ELSE IF a.hour[1] < 0 THEN 0 ELSE a.hour[1]
      [] f = "tz" -> a.tz
      [] f = "lang" -> a.lang

Providers(c, f) == {s \in Begun : muts[s].chat = c /\ Provides(muts[s].args, f)}
MaxOf(S) == CHOOSE x \in S : \A y \in S : y <= x
MinOf(S) == CHOOSE x \in S : \A y \in S : x <= y

\* The row of conversation c before the first call on it: the row that call loaded, or
\* the column defaults when it found none.
RowBefore(c) ==
    LET first == muts[MinOf({s \in Begun : muts[s].chat = c})]
    IN IF first.row = <<>> THEN DefaultChat ELSE first.row[1]

\* C12: after an off command has set a conversation's enabled flag to false, no hourly
\* scan and no daily fallback pass attempts a lock or invokes the pipeline for it until
\* an on command is issued, whatever the other conversations' states and the process
\* configuration are: a job that starts lists no conversation whose flag is false.
C12_DisabledNeverScanned ==
    [][\A j \in JobIds :
          (jobs[j].pc = "idle" /\ jobs'[j].pc # "idle") =>
              \A n \in 1..Len(jobs'[j].todo) :
                  LET c == jobs'[j].todo[n].chat_id
                  IN ~(c \in DOMAIN chats /\ ~chats[c].enabled)]_vars

\* C13: set_chat_schedule(id, hour=h) followed by set_chat_schedule(id, tz=z), and any
\* other order of calls that each provide some fields, leaves every field at the value
\* last provided for it; a call that omits a field never changes that field (stated
\* for calls made one after the other whose commits succeeded).
C13_ConfigMerge ==
    (\A s \in Begun : muts[s].pc = "done" /\ muts[s].seq /\ muts[s].ok = "committed")
    => \A c \in {muts[s].chat : s \in Begun} : \A f \in ChatFields :
          /\ c \in DOMAIN chats
          /\ chats[c][f] = IF Providers(c, f) = {} THEN RowBefore(c)[f]
                           ELSE ProvidedValue(muts[MaxOf(Providers(c, f))].args, f)

\* C13 witness: a call that gave only the hour, then a call that gave only the
\* timezone, on one conversation: both values are in the row.
C13_Witness ==
    \E s, t \in Begun :
        /\ s < t /\ muts[s].chat = muts[t].chat
        /\ muts[s].pc = "done" /\ muts[t].pc = "done" /\ muts[t].seq
        /\ muts[s].ok = "committed" /\ muts[t].ok = "committed"
        /\ muts[s].args = set_chat_schedule_args(<<9>>, "", "")
        /\ muts[t].args = set_chat_schedule_args(<<>>, "Asia/Tokyo", "")
        /\ chats[muts[s].chat].summary_hour = 9
        /\ chats[muts[s].chat].tz = "Asia/Tokyo"

\* C14: when two mutations of different fields of the same conversation run
\* concurrently in any interleaving of their read, modify and commit steps, including
\* when the conversation row does not yet exist, both fields hold their new values
\* once both calls have returned (stated for calls that met no database failure).
C14_ConcurrentMerge ==
    \A s, t \in Begun :
        (/\ s # t /\ muts[s].chat = muts[t].chat
         /\ muts[s].pc = "done" /\ muts[t].pc = "done"
         /\ muts[s].ok # "error" /\ muts[t].ok # "error"
         /\ \A u \in Begun : u \in {s, t} \/ muts[u].chat # muts[s].chat
         /\ \A f \in ChatFields : ~(Provides(muts[s].args, f) /\ Provides(muts[t].args, f)))
        => \A f \in ChatFields : \A u \in {s, t} :
              Provides(muts[u].args, f) =>
                  /\ muts[u].chat \in DOMAIN chats
                  /\ chats[muts[u].chat][f] = ProvidedValue(muts[u].args, f)

\* ------------------------------------------------------------------ claims: commands and admin sessions
\* The last command is a range or all range command that reached the range checks
\* with two calendar dates.
RangeChecked ==
    /\ \/ cmd.cmd = "range"
       \/ cmd.cmd = "all_range" /\ cmd.reply \notin {"denied", "none"}
    /\ strptime_ok(cmd.range[1]) /\ strptime_ok(cmd.range[2])

FirstDay == ToDate(cmd.range[1])
LastDay == ToDate(cmd.range[2])
Rejected == cmd.reply \in {"usage", "too_large"}
Granted(r) == r.reply \in {"granted_user", "granted_chat"}

\* The history holds a login answered with success under key k whose TTL has not
\* elapsed, with no logout since.
GrantLive(k) == grants[k] >= 0 /\ now - grants[k] < ADMIN_TTL_SEC

\* C15: a range or all range command is rejected with a user-facing message, with no
\* lock attempt and no pipeline invocation, exactly when its end date precedes its
\* start date or its inclusive day count exceeds the maximum span; a range whose day
\* count equals the maximum is accepted and never truncated.
C15_RangeValidation ==
    RangeChecked =>
        /\ Rejected <=> (LastDay < FirstDay \/ LastDay - FirstDay + 1 > MAX_RANGE_DAYS)
        /\ Rejected => cmd.invoked = {}
        /\ ~Rejected => /\ cmd.invoked # {}
                        /\ \A x \in cmd.invoked : x[2] = FirstDay /\ x[3] = LastDay + 1
        /\ summary_lock = {}

\* C15 witness: a range of exactly 31 days, 2025-08-01 to 2025-08-31, was accepted and
\* the pipeline ran over all of it.
C15_Witness ==
    /\ cmd.cmd = "range"
    /\ cmd.range = <<[m |-> 8, d |-> 1], [m |-> 8, d |-> 31]>>
    /\ cmd.reply = "sent"
    /\ cmd.invoked = {<<"c1", 213, 244>>}

C17_LoginThenAllRange ==
    (/\ cmd.cmd = "all_range" /\ cmd.reply # "none"
     /\ parse_range(cmd.range) # <<>>
     /\ ~RangeTooLarge(FirstDay, LastDay)
     /\ GrantLive(LoginKey(cmd.user, cmd.chat)))
    => cmd.reply = "done" /\ cmd.invoked # {}

\* C18: an admin grant is live exactly until the session TTL has elapsed since the most
\* recent successful login under its key: it is gone at T + TTL, and a repeated login
\* at T' restarts the TTL from T' (stated for a configured session store).
C18_SessionExpiry ==
    redisOn => \A k \in AdminKeys :
        RedisGet(redisKeys, redisExpiry, k, now) <=> GrantLive(k)

\* C18 witness: a session created at instant 0 is not live at TTL + 1 seconds.
C18_Witness ==
    /\ redisOn
    /\ now = ADMIN_TTL_SEC + 1
    /\ \E k \in AdminKeys : grants[k] = 0 /\ ~RedisGet(redisKeys, redisExpiry, k, now)

\* C19: a login creates a grant only when the shared secret is configured and the
\* supplied code equals it: with no secret configured every login, an empty code
\* included, is answered NotConfigured, with a wrong code InvalidCode, and in both
\* cases the set of live admin sessions is unchanged.
C19_LoginGuard ==
    [][(cmd'.cmd = "login" /\ now' = now) =>
          /\ admin_code = "" => cmd'.reply = "not_configured"
          /\ (admin_code # "" /\ cmd'.code # admin_code) => cmd'.reply = "invalid_code"
          /\ Granted(cmd') => (admin_code # "" /\ cmd'.code = admin_code)
          /\ ~(admin_code # "" /\ cmd'.code = admin_code) =>
                 /\ redisKeys' = redisKeys
                 /\ redisExpiry' = redisExpiry
                 /\ grants' = grants]_vars

\* C19 witness: with no secret configured, a login with an empty code was answered
\* NotConfigured.
C19_Witness ==
    /\ admin_code = ""
    /\ cmd.cmd = "login" /\ cmd.code = "" /\ cmd.reply = "not_configured"

\* C20: the admin check for a command from user u in conversation c is true if and
\* only if a live grant exists under u's key or under c's key; a grant stored under
\* user A's key never authorizes a different user B in a conversation that has no
\* conversation-level grant.
C20_BothChannels ==
    (cmd.cmd = "all_range" /\ cmd.reply # "none") =>
        (cmd.reply # "denied" <=> (cmd.live_user \/ cmd.live_chat))

\* C20 witness: user B was refused in a conversation without a conversation-level
\* grant while the grant stored under user A's key was live.
C20_Witness ==
    /\ cmd.cmd = "all_range" /\ cmd.user = "uB" /\ cmd.reply = "denied"
    /\ RedisGet(redisKeys, redisExpiry, AdminKey("uA"), now)
    /\ ~RedisGet(redisKeys, redisExpiry, AdminChatKey(cmd.chat), now)

\* ------------------------------------------------------------------ claims: idempotency gate
StartedOn(i) == {k \in Callers : calls[k].pc # "idle" /\ calls[k].mid = i}

\* The claims of id i form one batch served by the shared store: every started call
\* has returned, each was answered by Redis, and they lie within one retention window.
SharedBatch(i) ==
    /\ StartedOn(i) # {}
    /\ \A k \in StartedOn(i) : calls[k].pc = "done" /\ calls[k].via = "redis"
    /\ \A j, k \in StartedOn(i) : calls[j].at - calls[k].at < LOCAL_TTL

\* C4: for any event identifier claimed N times concurrently through _dedupe_mark by
\* callers of any processes that share the store, exactly one claim returns True.
C4_ExactlyOneClaim ==
    \A i \in MsgIds :
        SharedBatch(i) => Cardinality({k \in StartedOn(i) : calls[k].res}) = 1

\* C4 witness: two callers in different processes raced on one id through the store.
C4_Witness ==
    \E i \in MsgIds : \E j, k \in StartedOn(i) :
        /\ SharedBatch(i)
        /\ calls[j].proc # calls[k].proc
        /\ calls[j].res /\ ~calls[k].res

\* C5: once _dedupe_mark has returned True for an identifier, every later call for
\* it within the 24-hour retention window returns False, store failures included
\* (stated for the later calls made in the very process that was answered True).
C5_NoSecondTrue ==
    \A k \in Callers :
        (calls[k].pc = "done" /\ \E e \in calls[k].prior : calls[k].at - e[1] < LOCAL_TTL)
            => ~calls[k].res

\* C6: every idempotency marker in the shared store carries an expiry of the retention
\* window, also after a failure between creating the marker and setting its expiry
\* (stated for the states in which no call is between its set and its expire step).
C6_MarkerHasTTL ==
    (\A k \in Callers : calls[k].pc # "expire")
        => \A key \in redisKeys :
              \E e \in redisExpiry : e[1] = key /\ e[2] <= now + LOCAL_TTL

C8_FallbackLogged ==
    \A k \in Callers :
        (calls[k].pc = "done" /\ calls[k].via = "local")
            => \E r \in log : r.level = "warning" /\ r.what = "dedupe_degraded"

\* ------------------------------------------------------------------ claims: duplicate delivery
Delivered(e) == {k \in Deliveries : hand[k].pc # "idle" /\ hand[k].ev = e}
Handled(k) == hand[k].pc = "done" /\ hand[k].rec = "done"
RowsOf(e) == {r \in messages : r[2] = e.chat_id /\ r[3] = e.create_time /\ r[4] = e.text}

\* C9: when the same message event is delivered twice within the retention window,
\* in sequence or concurrently, the message store ends with exactly one row for it
\* and exactly one reply is sent (stated for a text event that calls for a reply,
\* once both deliveries are handled, with both claims answered by the shared store
\* and no database error in either record_message).
C9_DuplicateDelivery ==
    \A e \in Events :
        (/\ e.message_type = "text" /\ e.message_id # "" /\ Answers(e)
         /\ Cardinality(Delivered(e)) = 2
         /\ \A k \in Delivered(e) : Handled(k) /\ calls[k].via = "redis"
         /\ \A j, k \in Delivered(e) : calls[j].at - calls[k].at < LOCAL_TTL)
        => /\ Cardinality(RowsOf(e)) = 1
           /\ Cardinality({r \in replies : r.mid = e.message_id}) = 1

\* ------------------------------------------------------------------ claims: logout
\* A step that handles a logout command which was answered.
LogoutStep ==
    /\ now' = now
    /\ cmd'.cmd = "logout" /\ cmd'.reply = "logged_out"

\* The admin keys other than the key of user u and the key of conversation c.
OtherKeys(u, c) == {k \in AdminKeys : k # AdminKey(u) /\ k # AdminChatKey(c)}

C27_LockBeforePipeline ==
    \A r \in runs :
        (ByScheduler(r) /\ Invoked(r)) =>
            /\ r.got = "acquired"
            /\ <<r.date, r.chat>> \in summary_lock

\* ------------------------------------------------------------------ claims: the lock is kept
\* A scheduler job acquired the lock of the pair of run q at an earlier tick, its
\* pipeline failed, and the lock row is still in the store.
LockSpent(q) ==
    \E r \in runs :
        /\ r.chat = q.chat /\ r.date = q.date
        /\ ByScheduler(r) /\ r.got = "acquired" /\ r.out = "raised"
        /\ <<r.date, r.chat>> \in summary_lock
        /\ r.tick < q.tick

\* C22: the set of summary lock rows only grows, and when the pipeline fails after
\* the lock for (conversation, date key) was acquired, the lock stays in place and
\* no tick that starts later invokes the pipeline again for that pair.
C22_LockKept ==
    [][/\ summary_lock \subseteq summary_lock'
       /\ \A q \in runs' \ runs : (ByScheduler(q) /\ Invoked(q)) => ~LockSpent(q)]_vars

\* ------------------------------------------------------------------ claims: ticks of one process
\* The steps of the execution path a job function can be suspended at.
PathSteps == {"lock_check", "lock_insert", "summarize"}

\* The periodic scan of the scheduler process.
Scan == <<"w1", "hourly_scan">>

\* C24: within one scheduler process at most one periodic scan is in flight at any
\* time: when a tick fires while the previous periodic scan is still running, the
\* running scan is not cancelled and no second periodic scan is started.  While the
\* scan is inside the execution path no start of the scan is possible, and the passing
\* of the hour leaves the scan where it is.
C24_SingleScan ==
    /\ [](jobs[Scan].pc \in PathSteps => ~ENABLED StartJob(Scan))
    /\ [][(jobs[Scan].pc \in PathSteps /\ now' # now) => jobs'[Scan] = jobs[Scan]]_vars

\* C24 witness: the periodic scan that started at 08:00 Asia/Tokyo is still in the
\* pipeline of c2 one hour later, when c1 is due.
C24_Witness ==
    /\ ticks = 1
    /\ jobs[Scan].pc = "summarize"
    /\ Head(jobs[Scan].todo).chat_id = "c2"
    /\ DueNow([chat_id |-> "c1", tz |-> chats["c1"].tz, hour |-> chats["c1"].summary_hour], now)

\* C26: no error raised inside a tick (conversation table unreadable, lock error,
\* pipeline or delivery failure) terminates the scheduler or stops later ticks: a tick
\* in which the conversation list cannot be read attempts no conversation, and the
\* next scheduled tick still runs.  The step in which the list read raises adds no
\* lock row and no run; the passing of the hour arms every job that is not inside the
\* execution path, however its previous run ended; and an armed job whose trigger
\* fires can start.
C26_TicksGoOn ==
    /\ [][\A j \in ToggleJobs :
            /\ (jobs[j].pc # "crashed" /\ jobs'[j].pc = "crashed" /\ jobs'[j].todo = <<>>)
                  => (runs' = runs /\ summary_lock' = summary_lock)
            /\ (now' # now /\ jobs[j].pc \notin PathSteps) => ~jobs'[j].fired]_vars
    /\ [](\A j \in ToggleJobs :
            (TriggerFires(j) /\ jobs[j].pc \notin PathSteps) => ENABLED StartJob(j))

\* C26 witness: the periodic scan ended by the exception of the list read in an
\* earlier hour without attempting a conversation, its trigger of this hour has
\* fired, and the scan can start.
C26_Witness ==
    /\ ticks >= 1
    /\ jobs[Scan].pc = "crashed" /\ jobs[Scan].todo = <<>>
    /\ TriggerFires(Scan)
    /\ ENABLED StartJob(Scan)
    /\ \A r \in runs : r.by # Scan

\* ------------------------------------------------------------------ claims: one pass
\* Job j has handled conversation c in its pass, or is handling it.
Attempted(j, c) ==
    \/ \E r \in runs : r.by = j /\ r.chat = c
    \/ Running(j) /\ Head(jobs[j].todo).chat_id = c

\* The pass of job j is over: its trigger has fired and the job function has ended.
PassOver(j) == jobs[j].fired /\ ~Running(j)

\* The enabled conversations whose stored timezone name resolves.
Resolvable == {c \in DOMAIN chats : chats[c].enabled /\ chats[c].tz \in KnownZones}

\* C23: in a periodic scan, for every enabled conversation and every configured
\* summaryHour in 0..23, 0 included, execution for today's date key is attempted if
\* and only if the current hour in the conversation's timezone equals its summaryHour
\* (stated for a scan that returned, over the conversations whose timezone resolves).
C23_DueAtItsHour ==
    (jobs[Scan].fired /\ jobs[Scan].pc = "idle") =>
        \A c \in Resolvable :
            Attempted(Scan, c) <=> now_hour_in_tz(chats[c].tz, now) = chats[c].summary_hour

\* C25: within one hourly scan or daily fallback pass, a failure while handling one
\* conversation (a pipeline or delivery error, a lock error, or a stored timezone name
\* that cannot be resolved) does not prevent the execution path from being attempted
\* for every other due conversation of the pass: when the pass is over, every enabled
\* conversation with a timezone that resolves was attempted by the fallback pass, and
\* by the hourly scan if its hour matched.
C25_OneFailureOthersRun ==
    \A j \in ToggleJobs :
        PassOver(j) =>
            \A c \in Resolvable :
                (j[2] = "daily_fallback"
                 \/ DueNow([chat_id |-> c, tz |-> chats[c].tz, hour |-> chats[c].summary_hour], now))
                    => Attempted(j, c)

\* ------------------------------------------------------------------ claims: command texts
\* The closed set of sub-verbs, by their first word.
SubVerbs == {"on", "off", "at", "tz", "lang", "once", "range", "all", "login", "logout"}

\* C28: a command with invalid user input performs no state mutation: a tz command
\* that names an unknown timezone leaves the conversation's stored timezone unchanged
\* and is answered with an error message.
C28_UnknownZoneRejected ==
    [][(/\ Len(cmd'.text) = 3 /\ cmd'.text[2] = "tz"
        /\ cmd'.text[3] \notin KnownZones)
          => /\ chats'[cmd'.chat].tz = chats[cmd'.chat].tz
             /\ cmd'.reply = "error"]_vars

\* C29: a message that starts with the reserved prefix but whose sub-verb is not one
\* of the closed set yields no command: it changes no schedule field, no enabled flag
\* and no admin session, triggers no summary and is not answered, also when the
\* sub-verb begins with the letters of on or off.
C29_UnknownVerbIgnored ==
    [][(/\ Len(cmd'.text) >= 2 /\ cmd'.text[1] = "#summary"
        /\ cmd'.text[2] \notin SubVerbs)
          => /\ chats' = chats
             /\ redisKeys' = redisKeys /\ redisExpiry' = redisExpiry
             /\ runs' = runs /\ cmd'.invoked = {}
             /\ cmd'.reply = "none"]_vars

C31_FalseMeansRowExists ==
    [][\A r \in runs' \ runs :
          (ByScheduler(r) /\ r.got \in {"refused", "failed"}) =>
              <<r.date, r.chat>> \in summary_lock']_vars

\* ------------------------------------------------------------------ SpecHang
\* The scheduler of SpecTicks with dependencies that may never answer a call.

\* The dependencies whose calls carry a timeout: the summarization service
\* (openai_client.py:45, 197, 263) and the delivery to the platform
\* (scheduler_worker.py:77, 95 httpx.AsyncClient(timeout=30); lark_client.py:41).  The
\* calls to the schedule and lock storage (database.py:64-72: only the connection
\* attempt is bounded, connect_args timeout) and to the shared cache
\* (lark_client.py:15, 27) carry none.
Bounded == {"summarization", "delivery"}

\* The dependencies a job awaits at a step of the execution path: the select
\* (crud.py:111) and the commit (crud.py:118) of the lock, and in the pipeline the read
\* of the messages (tasks.py:345-346), the summarization (tasks.py:356) and the delivery
\* with its cached token (tasks.py:361, lark_client.py:27).
Awaits(pc) ==
    IF pc \in {"lock_check", "lock_insert"} THEN {"storage"}
    ELSE IF pc = "summarize" THEN {"storage", "summarization", "delivery", "cache"}
    ELSE {}

\* The dependency dep never answers the call job j awaits: a call with a timeout raises
\* after it, which the worker catches as a pipeline failure (scheduler_worker.py:68-69);
\* a call without one is awaited for ever.
NoResponse(j, dep) ==
    /\ dep \in Awaits(jobs[j].pc)
    /\ IF dep \in Bounded
       THEN SummarizeRaises(j)
       ELSE /\ jobs' = [jobs EXCEPT ![j].pc = "hung"]
            /\ UNCHANGED <<cmdVars, now, ticks, log, schedFrame, summary_lock, runs>>

NextHang ==
    \/ NextTicks
    \/ \E j \in ToggleJobs, dep \in UNION {Awaits(pc) : pc \in {"lock_check", "summarize"}} :
          NoResponse(j, dep)

SpecHang == InitTicks /\ [][NextHang]_vars

\* ------------------------------------------------------------------ claims: timeouts
\* A step by which job j leaves the call it awaits.
Returns(j) ==
    \/ LockCheck(j) \/ LockCheckRaises(j)
    \/ LockInsert(j) \/ LockInsertRaises(j)
    \/ Summarize(j) \/ SummarizeRaises(j)

\* C32: every external call on the scheduler's execution path is bounded by a timeout,
\* so a scan always terminates even if one dependency never responds: a job that has
\* started a scan can always take the step that ends the call it awaits.
C32_ScanTerminates ==
    \A j \in ToggleJobs : Running(j) => ENABLED Returns(j)

\* ------------------------------------------------------------------ claims: enable all
\* C33: the command "#summary enable all" sets the issuing conversation, and only it,
\* to enabled: after it is handled that conversation's enabled flag is true and no
\* other conversation's row has changed.
C33_EnableAll ==
    [][cmd'.text = <<"#summary", "enable", "all">> =>
          /\ chats'[cmd'.chat].enabled
          /\ \A c \in DOMAIN chats \ {cmd'.chat} : chats'[c] = chats[c]]_vars

\* ------------------------------------------------------------------ claims: gate before handling
\* C34: every message event that leads to a reply has first obtained a true result
\* from the idempotency gate for its event identifier, also when the event carries no
\* message identifier: the delivery behind every reply holds a finished gate call for
\* the reply's identifier that returned true.
C34_GateBeforeReply ==
    \A r \in replies :
        /\ calls[r.by].pc = "done"
        /\ calls[r.by].mid = r.mid
        /\ calls[r.by].res

\* ------------------------------------------------------------------ claims: slow pipeline
\* C35: every enabled conversation whose configured hour matches its local hour at the
\* moment a periodic scan starts is attempted by that scan, however long the pipeline
\* calls for conversations earlier in the list take: when the scan returns, it has a
\* run for every conversation that was due at the instant it started.
C35_DueAtStartAttempted ==
    [][(jobs[Scan].pc \in PathSteps /\ jobs'[Scan].pc = "idle") =>
          \A c \in Resolvable :
              DueNow([chat_id |-> c, tz |-> chats[c].tz, hour |-> chats[c].summary_hour],
                     jobs[Scan].tick)
                 => \E r \in runs' : r.by = Scan /\ r.tick = jobs[Scan].tick /\ r.chat = c]_vars

\* ------------------------------------------------------------------ claims: the summarized day
\* C36: whenever the scheduler summarizes a conversation under the lock for
\* (conversation, D), the window it summarizes is exactly the calendar day before D in
\* the conversation's timezone, [D-1 00:00, D 00:00), even when the clock advances
\* between the lock acquisition and the window computation.
C36_WindowIsDayBefore ==
    \A r \in runs :
        (ByScheduler(r) /\ Invoked(r) /\ r.got = "acquired") =>
            r.window = <<(r.date - 1) * 86400 - UtcOffset(chats[r.chat].tz),
                         r.date * 86400 - UtcOffset(chats[r.chat].tz)>>

C38_ConfirmOnlyCommitted ==
    [][(cmd'.text # <<>> /\ cmd'.reply = "updated") =>
          LET row == chats'[cmd'.chat]
          IN row = AssignFields(row, CrudArgs(Interpret(lower(Chars(cmd'.text)))))]_vars

TokStep(new) ==
    /\ tok' = new
    /\ UNCHANGED <<now, ticks, log, redisOn, redisKeys, redisExpiry, local_seen, calls, lastTrue,
                   localTrue, webVars, schedVars, muts, admin_code, cmd, grants>>

\* lark_client.py:27-29  the read of the cache before the lock: a cached token is
\* returned at once
TokenFirstGet(k) ==
    /\ tok.co[k].pc = "idle"
    /\ TokStep([tok EXCEPT !.co[k] = IF tok.cache # <<>> THEN [pc |-> "done", ret |-> tok.cache]
                                      ELSE [pc |-> "wait", ret |-> <<>>]])

\* lark_client.py:31  async with token_lock: entered when the lock is free
TokenAcquire(k) ==
    /\ tok.co[k].pc = "wait"
    /\ tok.lock = <<>>
    /\ TokStep([tok EXCEPT !.co[k].pc = "locked", !.lock = <<k>>])

TokenSecondGet_NoRecheck(k) ==
    /\ tok.co[k].pc = "locked"
    /\ TokStep([tok EXCEPT !.co[k].pc = "post"])

\* lark_client.py:32-34  the read of the cache inside the lock: a token cached in the
\* meantime is returned and the lock released
TokenSecondGet(k) ==
    /\ tok.co[k].pc = "locked"
    /\ TokStep(IF tok.cache # <<>>
               THEN [tok EXCEPT !.co[k] = [pc |-> "done", ret |-> tok.cache], !.lock = <<>>]
               ELSE [tok EXCEPT !.co[k].pc = "post"])

\* lark_client.py:36-46  the token request is sent and answered with code 0 and a token
TokenPost(k) ==
    /\ tok.co[k].pc = "post"
    /\ TokStep([tok EXCEPT !.co[k] = [pc |-> "set", ret |-> <<tok.requests + 1>>],
                           !.requests = @ + 1])

\* lark_client.py:47-49  the token is written to the cache and returned, the lock released
TokenSet(k) ==
    /\ tok.co[k].pc = "set"
    /\ TokStep([tok EXCEPT !.co[k].pc = "done", !.cache = tok.co[k].ret, !.lock = <<>>])

\* lark_client.py:41-42, 50-56  the token request is sent and fails (transport error,
\* HTTP error status, code other than 0), or the write to the cache raises after the
\* token was obtained: the exception leaves the function and releases the lock, with
\* nothing cached
TokenRaises(k) ==
    /\ tok.co[k].pc \in {"post", "set"}
    /\ TokStep([tok EXCEPT !.co[k] = [pc |-> "raised", ret |-> <<>>], !.lock = <<>>,
                           !.requests = IF tok.co[k].pc = "post" THEN @ + 1 ELSE @,
                           !.failures = @ + 1])

InitToken ==
    /\ now = 0
    /\ ticks = 0
    /\ log = {}
    /\ InitGate
    /\ redisOn
    /\ InitWeb
    /\ InitIdleSched
    /\ InitIdleCmd

NextToken ==
    \/ \E k \in Coroutines : TokenFirstGet(k)
    \/ \E k \in Coroutines : TokenAcquire(k)
    \/ \E k \in Coroutines : TokenSecondGet(k)
    \/ \E k \in Coroutines : TokenPost(k)
    \/ \E k \in Coroutines : TokenSet(k)
    \/ \E k \in Coroutines : TokenRaises(k)

SpecToken == InitToken /\ [][NextToken]_vars

\* ------------------------------------------------------------------ claims: token requests
\* The coroutines whose call has returned a token.
Returned == {k \in Coroutines : tok.co[k].pc = "done"}

\* C40 as stated: when several coroutines of one process call get_tenant_access_token
\* concurrently while the cache holds no token, at most one token request is sent to
\* the platform, and every call returns that same token.
C40_AtMostOneRequest ==
    /\ tok.requests <= 1
    /\ \A j, k \in Returned : tok.co[j].ret = tok.co[k].ret

\* C40: when several coroutines of one process call get_tenant_access_token
\* concurrently while the cache holds no token, at most one coroutine at a time is
\* inside the lock, a further token request is sent only after an attempt inside the
\* lock failed, so at most one is sent when none fails, and every call that returns
\* returns the one token that was cached.
C40_OneRequestPerAttempt ==
    /\ Cardinality({k \in Coroutines : tok.co[k].pc \in {"locked", "post", "set"}}) <= 1
    /\ tok.requests <= tok.failures + 1
    /\ \A k \in Returned : tok.cache # <<>> /\ tok.co[k].ret = tok.cache

\* C40 witness: one request was sent and none failed; two coroutines have returned its
\* token, and a third, which found the cache empty before the lock, is inside the lock
\* with the token cached.
C40_Witness ==
    /\ tok.requests = 1 /\ tok.failures = 0
    /\ Cardinality({k \in Returned : tok.co[k].ret = <<1>>}) = 2
    /\ \E k \in Coroutines : tok.co[k].pc = "locked"
====
